---- MODULE Spec2Model ----
(***************************************************************************)
(* Model of continuum-hydra's acceleration engine.                         *)
(*                                                                         *)
(* Part 1: the reversible whole-system toggle                              *)
(*   (accelerate/system_tuner.py, system_state.py, system_cli.py).         *)
(* Part 2: the planner apply pipeline (accelerate/cli.py, models.py,       *)
(*   actions/*.py).                                                        *)
(* Part 3: the registry, filter_actions, load_plugins and build_plan as    *)
(*   library calls (accelerate/registry.py, plugins/loader.py,             *)
(*   plan_builder.py).                                                     *)
(***************************************************************************)
EXTENDS Integers, Sequences, FiniteSets, TLC

(***************************************************************************)
(* Bounds                                                                  *)
(***************************************************************************)
\* number of accelerate commands issued in one behaviour
MaxOps == 3
\* number of mutating commands / system calls that fail in one behaviour
MaxFaults == 2
\* number of tunables or tools the host lacks
MaxMissing == 1

(***************************************************************************)
(* Python optionals: None is the empty tuple, a value v is <<v>>.          *)
(***************************************************************************)
None == <<>>
Some(v) == <<v>>
Val(x) == x[1]

\* dict.get(key): None when the key is absent
Get(d, k) == IF k \in DOMAIN d THEN d[k] ELSE None

\* Python "err or default"
ErrOr(err, default) == IF err = "" THEN default ELSE err

Range(s) == {s[i] : i \in 1..Len(s)}

(***************************************************************************)
(* Values of the tunables                                                  *)
(***************************************************************************)
Governors == {"powersave", "performance"}
SwapValues == {10, 60}
NiceFloor == 0 - 20
NiceStep == 5
NofileTarget == 65535
NormalPriority == 32
HighPriority == 128
BalancedPlan == "381b4222-f694-41f0-9685-ff5bb260df2e"
\* the scheme "powercfg /setactive SCHEME_MIN" activates (High performance)
HighPerformancePlan == "8c5e7fda-e8bf-4a96-9a85-a6e23a8c635c"

\* outcome of one external command as _run_cmd reports it: (code, err)
OkOutcome == [code |-> 0, err |-> ""]
\* a command: success, failure with empty stderr, failure with stderr text
Outcomes == {OkOutcome, [code |-> 1, err |-> ""], [code |-> 1, err |-> "boom"]}
\* an in-process system call: success, or an exception with its text
ExcText == "Operation not permitted"
SysOutcomes == {OkOutcome, [code |-> 1, err |-> ExcText]}

_run_cmd(outcome) == <<outcome.code, outcome.err>>

(***************************************************************************)
(* Execution context of the toggle (detect_context) and host state         *)
(***************************************************************************)
detect_context(platform, root, nvidia) ==
  [platform |-> platform,
   is_linux |-> platform = "linux",
   is_windows |-> platform = "windows",
   is_macos |-> platform = "darwin",
   is_root |-> root,
   nvidia_present |-> nvidia]

\* hasattr(os, "nice"): the os module has no nice() on Windows
HasNice(c) == ~c.is_windows

_read_cpu_governor(h) == h.governor
_read_swappiness(h) == h.swappiness
_read_nvidia_persistence(h) == IF h.nvq_ok THEN Some(h.persistence) ELSE None
_read_windows_power_plan(h) == h.power_plan

(***************************************************************************)
(* capture_previous_state: the snapshot is a function from key to          *)
(* optional value; the keys are exactly those the code assigns.            *)
(***************************************************************************)
CaptureKeys(c, cpu_only, gpu_only) ==
  {"nice", "rlimit_nofile"}
    \cup (IF c.is_linux /\ ~gpu_only THEN {"cpu_governor", "swappiness"} ELSE {})
    \cup (IF c.nvidia_present /\ ~cpu_only THEN {"nvidia_persistence_mode"} ELSE {})
    \cup (IF c.is_windows /\ ~gpu_only THEN {"process_priority", "power_plan_guid"} ELSE {})

capture_previous_state(c, h, cpu_only, gpu_only) ==
  [k \in CaptureKeys(c, cpu_only, gpu_only) |->
     CASE k = "nice" -> IF HasNice(c) THEN Some(h.nice) ELSE None
       [] k = "rlimit_nofile" -> h.rlimit
       [] k = "cpu_governor" -> _read_cpu_governor(h)
       [] k = "swappiness" -> _read_swappiness(h)
       [] k = "nvidia_persistence_mode" -> _read_nvidia_persistence(h)
       [] k = "process_priority" -> h.priority
       [] k = "power_plan_guid" -> _read_windows_power_plan(h)]

\* the external (read-only) commands capture_previous_state runs
CaptureLog(c, cpu_only, gpu_only) ==
  (IF c.nvidia_present /\ ~cpu_only
     THEN <<[kind |-> "cmd", tool |-> "nvidia_query", text |-> "nvidia-smi -q -d PERFORMANCE", mutating |-> FALSE]>>
     ELSE <<>>)
  \o (IF c.is_windows /\ ~gpu_only
     THEN <<[kind |-> "cmd", tool |-> "powercfg_query", text |-> "powercfg /getactivescheme", mutating |-> FALSE]>>
     ELSE <<>>)

(***************************************************************************)
(* One pass (apply or restore) threads a record                            *)
(*   [changes, failures, log, host]                                        *)
(* through the per-tunable blocks in the order of the code.                *)
(***************************************************************************)
EmptyPass(h) == [changes |-> <<>>, failures |-> <<>>, log |-> <<>>, host |-> h]

add_change(st, name, result, message, command) ==
  [st EXCEPT !.changes = Append(@, [name |-> name, result |-> result,
                                    message |-> message, command |-> command])]

AddFailure(st, text) == [st EXCEPT !.failures = Append(@, text)]

\* subprocess.run of a mutating command
RunMutating(st, tool, text) ==
  [st EXCEPT !.log = Append(@, [kind |-> "cmd", tool |-> tool, text |-> text, mutating |-> TRUE])]

\* a mutating system call made in-process (os.nice, setrlimit, psutil)
SysCall(st, tool, text) ==
  [st EXCEPT !.log = Append(@, [kind |-> "syscall", tool |-> tool, text |-> text, mutating |-> TRUE])]

SetHost(st, field, value) == [st EXCEPT !.host = [@ EXCEPT ![field] = value]]

Max(a, b) == IF a >= b THEN a ELSE b
Min(a, b) == IF a <= b THEN a ELSE b

(***************************************************************************)
(* apply_acceleration                                                      *)
(***************************************************************************)
ApplyGovernor(c, prev, dry_run, oc, st) ==
  LET governor == Get(prev, "cpu_governor")
      cmd == "cpupower frequency-set -g performance"
  IN IF governor = None
       THEN add_change(st, "cpu_governor", "skipped", "governor path unavailable", None)
     ELSE IF dry_run
       THEN add_change(st, "cpu_governor", "planned", "would set governor to performance", Some(cmd))
     ELSE IF ~c.is_root
       THEN add_change(st, "cpu_governor", "skipped", "root required", None)
     ELSE IF ~st.host.cpupower
       THEN add_change(st, "cpu_governor", "skipped", "cpupower not installed", None)
     ELSE LET r == _run_cmd(oc.cpupower)
              st1 == RunMutating(st, "cpupower", cmd)
          IN IF r[1] = 0
               THEN add_change(SetHost(st1, "governor", Some("performance")),
                               "cpu_governor", "applied", "set to performance", Some(cmd))
               ELSE add_change(AddFailure(st1, "cpu_governor: " \o ErrOr(r[2], "unknown error")),
                               "cpu_governor", "failed", ErrOr(r[2], "unknown error"), None)

ApplyNice(c, prev, dry_run, oc, st) ==
  IF ~HasNice(c) THEN st
  ELSE IF dry_run
    THEN add_change(st, "process_nice", "planned", "would raise process priority (nice -5)", None)
  ELSE LET st1 == SysCall(st, "nice", "os.nice(-5)")
       IN IF oc.nice.code = 0
            THEN add_change(SetHost(st1, "nice", Max(NiceFloor, st.host.nice - NiceStep)),
                            "process_nice", "applied", "raised process priority", None)
            ELSE add_change(st1, "process_nice", "skipped",
                            "insufficient permission: " \o oc.nice.err, None)

\* position of the first failed change, 0 when there is none
FirstFailed(chs) ==
  IF \E i \in 1..Len(chs) : chs[i].result = "failed"
    THEN CHOOSE i \in 1..Len(chs) :
           chs[i].result = "failed" /\ \A j \in 1..(i - 1) : chs[j].result # "failed"
    ELSE 0

ApplySwappiness(c, prev, dry_run, oc, st) ==
  LET swappiness == Get(prev, "swappiness")
      cmd == "sysctl -w vm.swappiness=10"
  IN IF swappiness = None
       THEN add_change(st, "swappiness", "skipped", "swappiness not available", None)
     ELSE IF dry_run
       THEN add_change(st, "swappiness", "planned", "would set vm.swappiness=10", Some(cmd))
     ELSE IF ~c.is_root
       THEN add_change(st, "swappiness", "skipped", "root required", None)
     ELSE LET r == _run_cmd(oc.sysctl)
              st1 == RunMutating(st, "sysctl", cmd)
          IN IF r[1] = 0
               THEN add_change(SetHost(st1, "swappiness", Some(10)),
                               "swappiness", "applied", "vm.swappiness set to 10", Some(cmd))
               ELSE add_change(AddFailure(st1, "swappiness: " \o ErrOr(r[2], "unknown error")),
                               "swappiness", "failed", ErrOr(r[2], "unknown error"), None)

ApplyUlimit(c, prev, dry_run, oc, st) ==
  LET limits == Get(prev, "rlimit_nofile")
  IN IF limits = None
       THEN add_change(st, "ulimit_nofile", "skipped", "rlimit unavailable", None)
     ELSE IF dry_run
       THEN add_change(st, "ulimit_nofile", "planned", "would raise soft open-file limit", None)
     ELSE LET soft == Val(limits).soft
              hard == Val(limits).hard
              target == Min(hard, Max(soft, NofileTarget))
              st1 == SysCall(st, "setrlimit", "resource.setrlimit")
          IN IF oc.setrlimit.code = 0
               THEN add_change(SetHost(st1, "rlimit", Some([soft |-> target, hard |-> hard])),
                               "ulimit_nofile", "applied",
                               "soft limit set to " \o ToString(target), None)
               ELSE add_change(st1, "ulimit_nofile", "skipped",
                               "unable to set rlimit: " \o oc.setrlimit.err, None)

ApplyWindowsPriority(c, prev, dry_run, oc, st) ==
  IF dry_run
    THEN add_change(st, "windows_process_priority", "planned", "would set HIGH priority", None)
  ELSE LET st1 == SysCall(st, "psutil", "psutil.nice(HIGH_PRIORITY_CLASS)")
       IN IF oc.psutil.code = 0
            THEN add_change(SetHost(st1, "priority", Some(HighPriority)),
                            "windows_process_priority", "applied", "set HIGH priority", None)
            ELSE add_change(st1, "windows_process_priority", "skipped", oc.psutil.err, None)

ApplyWindowsPowerPlan(c, prev, dry_run, oc, st) ==
  IF dry_run
    THEN add_change(st, "windows_power_plan", "planned",
                    "would set high performance power plan", None)
  ELSE LET r == _run_cmd(oc.powercfg)
           st1 == RunMutating(st, "powercfg", "powercfg /setactive SCHEME_MIN")
       IN IF r[1] = 0
            THEN add_change(SetHost(st1, "power_plan",
                                    IF st.host.power_plan = None THEN None
                                    ELSE Some(HighPerformancePlan)),
                            "windows_power_plan", "applied",
                            "set high performance power plan", None)
            ELSE add_change(st1, "windows_power_plan", "skipped",
                            ErrOr(r[2], "unable to change power plan"), None)

ApplyNvidia(c, prev, dry_run, cpu_only, gpu_only, oc, st) ==
  LET cmd == "nvidia-smi -pm 1"
  IN IF c.nvidia_present /\ ~cpu_only
       THEN IF dry_run
              THEN add_change(st, "nvidia_persistence", "planned",
                              "would enable persistence mode", Some(cmd))
            ELSE IF ~c.is_root
              THEN add_change(st, "nvidia_persistence", "skipped",
                              "root/admin may be required", None)
            ELSE LET r == _run_cmd(oc.nvidia_pm)
                     st1 == RunMutating(st, "nvidia_pm", cmd)
                 IN IF r[1] = 0
                      THEN add_change(SetHost(st1, "persistence", "enabled"),
                                      "nvidia_persistence", "applied",
                                      "enabled persistence mode", Some(cmd))
                      ELSE add_change(st1, "nvidia_persistence", "skipped",
                                      ErrOr(r[2], "unable to enable persistence mode"), None)
     ELSE IF ~gpu_only
       THEN add_change(st, "nvidia_persistence", "skipped", "nvidia-smi not found", None)
     ELSE st

\* the pass as the code runs it
ApplyPass(c, previous_state, dry_run, cpu_only, gpu_only, oc, h) ==
  LET s0 == EmptyPass(h)
      s1 == IF c.is_linux /\ ~gpu_only
              THEN ApplyUlimit(c, previous_state, dry_run, oc,
                     ApplySwappiness(c, previous_state, dry_run, oc,
                       ApplyNice(c, previous_state, dry_run, oc,
                         ApplyGovernor(c, previous_state, dry_run, oc, s0))))
              ELSE s0
      s2 == IF c.is_windows /\ ~gpu_only
              THEN ApplyWindowsPowerPlan(c, previous_state, dry_run, oc,
                     ApplyWindowsPriority(c, previous_state, dry_run, oc, s1))
              ELSE s1
  IN ApplyNvidia(c, previous_state, dry_run, cpu_only, gpu_only, oc, s2)

\* mutant: the first failed command ends the pass
apply_acceleration_StopsAtFailure(c, previous_state, dry_run, cpu_only, gpu_only, oc, h) ==
  LET r == ApplyPass(c, previous_state, dry_run, cpu_only, gpu_only, oc, h)
      n == FirstFailed(r.changes)
  IN IF n = 0 THEN r ELSE [r EXCEPT !.changes = SubSeq(r.changes, 1, n)]

apply_acceleration(c, previous_state, dry_run, cpu_only, gpu_only, oc, h) ==
  ApplyPass(c, previous_state, dry_run, cpu_only, gpu_only, oc, h)


(***************************************************************************)
(* restore_acceleration                                                    *)
(***************************************************************************)
RestoreGovernor(c, prev, dry_run, oc, st) ==
  LET governor == Get(prev, "cpu_governor")
  IN IF governor = None \/ Val(governor) = "" THEN st
     ELSE IF dry_run
       THEN add_change(st, "cpu_governor", "planned",
                       "would restore governor=" \o Val(governor), None)
     ELSE IF c.is_root /\ st.host.cpupower
       THEN LET r == _run_cmd(oc.cpupower)
                st1 == RunMutating(st, "cpupower", "cpupower frequency-set -g " \o Val(governor))
            IN IF r[1] = 0
                 THEN add_change(SetHost(st1, "governor", governor), "cpu_governor",
                                 "restored", "restored governor=" \o Val(governor), None)
                 ELSE add_change(
                        AddFailure(st1, "cpu_governor restore: " \o ErrOr(r[2], "unknown error")),
                        "cpu_governor", "failed", ErrOr(r[2], "unknown error"), None)
     ELSE add_change(st, "cpu_governor", "skipped", "root/cpupower unavailable for restore", None)

\* mutant: the restore writes the accelerated value instead of the captured one
RestoreSwappiness_WritesTarget(c, prev, dry_run, oc, st) ==
  LET swappiness == Get(prev, "swappiness")
  IN IF swappiness = None \/ dry_run \/ ~c.is_root THEN st
     ELSE add_change(SetHost(RunMutating(st, "sysctl", "sysctl -w vm.swappiness=10"),
                             "swappiness", Some(10)),
                     "swappiness", "restored", "restored vm.swappiness=10", None)

RestoreSwappiness(c, prev, dry_run, oc, st) ==
  LET swappiness == Get(prev, "swappiness")
  IN IF swappiness = None THEN st
     ELSE IF dry_run
       THEN add_change(st, "swappiness", "planned",
                       "would restore vm.swappiness=" \o ToString(Val(swappiness)), None)
     ELSE IF c.is_root
       THEN LET r == _run_cmd(oc.sysctl)
                st1 == RunMutating(st, "sysctl", "sysctl -w vm.swappiness=" \o ToString(Val(swappiness)))
            IN IF r[1] = 0
                 THEN add_change(SetHost(st1, "swappiness", swappiness), "swappiness", "restored",
                                 "restored vm.swappiness=" \o ToString(Val(swappiness)), None)
                 ELSE add_change(st1, "swappiness", "failed", ErrOr(r[2], "unknown error"), None)
     ELSE add_change(st, "swappiness", "skipped", "root required for restore", None)

RestoreUlimit(c, prev, dry_run, oc, st) ==
  LET limits == Get(prev, "rlimit_nofile")
  IN IF limits = None THEN st
     ELSE LET soft == Val(limits).soft
              hard == Val(limits).hard
              text == "soft=" \o ToString(soft) \o ", hard=" \o ToString(hard)
          IN IF dry_run
               THEN add_change(st, "ulimit_nofile", "planned", "would restore " \o text, None)
             ELSE LET st1 == SysCall(st, "setrlimit", "resource.setrlimit")
                  IN IF oc.setrlimit.code = 0
                       THEN add_change(SetHost(st1, "rlimit", limits), "ulimit_nofile",
                                       "restored", "restored " \o text, None)
                       ELSE add_change(st1, "ulimit_nofile", "skipped",
                                       "unable to restore rlimit: " \o oc.setrlimit.err, None)

\* mutant: a snapshot without a persistence mode is restored as "disabled"
RestoreNvidia_DefaultsOff(c, prev, dry_run, oc, st) ==
  add_change(SetHost(RunMutating(st, "nvidia_pm", "nvidia-smi -pm 0"),
                     "persistence", "disabled"),
             "nvidia_persistence", "restored", "restored persistence=disabled", None)

RestoreNvidia(c, prev, dry_run, oc, st) ==
  LET previous == Get(prev, "nvidia_persistence_mode")
  IN IF previous = None \/ Val(previous) \notin {"enabled", "disabled"} THEN st
     ELSE LET target == IF Val(previous) = "enabled" THEN "1" ELSE "0"
          IN IF dry_run
               THEN add_change(st, "nvidia_persistence", "planned",
                               "would restore persistence=" \o Val(previous), None)
             ELSE IF c.is_root
               THEN LET r == _run_cmd(oc.nvidia_pm)
                        st1 == RunMutating(st, "nvidia_pm", "nvidia-smi -pm " \o target)
                    IN IF r[1] = 0
                         THEN add_change(SetHost(st1, "persistence", Val(previous)),
                                         "nvidia_persistence", "restored",
                                         "restored persistence=" \o Val(previous), None)
                         ELSE add_change(st1, "nvidia_persistence", "failed",
                                         ErrOr(r[2], "unknown error"), None)
             ELSE add_change(st, "nvidia_persistence", "skipped",
                             "root/admin may be required for restore", None)

RestoreWindowsPriority(c, prev, dry_run, oc, st) ==
  LET priority == Get(prev, "process_priority")
  IN IF priority = None THEN st
     ELSE IF dry_run
       THEN add_change(st, "windows_process_priority", "planned",
                       "would restore priority=" \o ToString(Val(priority)), None)
     ELSE LET st1 == SysCall(st, "psutil", "psutil.nice(priority)")
          IN IF oc.psutil.code = 0
               THEN add_change(SetHost(st1, "priority", priority), "windows_process_priority",
                               "restored", "restored priority=" \o ToString(Val(priority)), None)
               ELSE add_change(st1, "windows_process_priority", "skipped",
                               "unable to restore priority: " \o oc.psutil.err, None)

RestoreWindowsPowerPlan(c, prev, dry_run, oc, st) ==
  LET power_plan == Get(prev, "power_plan_guid")
  IN IF power_plan = None \/ Val(power_plan) = "" THEN st
     ELSE IF dry_run
       THEN add_change(st, "windows_power_plan", "planned",
                       "would restore power plan=" \o Val(power_plan), None)
     ELSE LET r == _run_cmd(oc.powercfg)
              st1 == RunMutating(st, "powercfg", "powercfg /setactive " \o Val(power_plan))
          IN IF r[1] = 0
               THEN add_change(SetHost(st1, "power_plan", power_plan), "windows_power_plan",
                               "restored", "restored power plan=" \o Val(power_plan), None)
               ELSE add_change(st1, "windows_power_plan", "skipped",
                               ErrOr(r[2], "unable to restore power plan"), None)

restore_acceleration(c, previous_state, dry_run, oc, h) ==
  LET s0 == EmptyPass(h)
      s1 == IF c.is_linux
              THEN RestoreUlimit(c, previous_state, dry_run, oc,
                     RestoreSwappiness(c, previous_state, dry_run, oc,
                       RestoreGovernor(c, previous_state, dry_run, oc, s0)))
              ELSE s0
      s2 == IF c.nvidia_present
              THEN RestoreNvidia(c, previous_state, dry_run, oc, s1)
              ELSE s1
  IN IF c.is_windows
       THEN RestoreWindowsPowerPlan(c, previous_state, dry_run, oc,
              RestoreWindowsPriority(c, previous_state, dry_run, oc, s2))
       ELSE s2


(***************************************************************************)
(* Persisted previous-state file (system_state.py).  json.dumps followed   *)
(* by json.loads maps these payloads (str keys; str, int, bool, null,      *)
(* list and dict values) to themselves, so the file holds the payload.     *)
(***************************************************************************)
save_state(payload) == Some(payload)
load_state(f) == f


(***************************************************************************)
(* State of the whole-system toggle                                        *)
(***************************************************************************)
VARIABLES
  ctx,        \* detect_context() of this host
  host,       \* the tunables of the host and the tools it has
  file,       \* .continuum/state/accelerate_state.json: None or Some(payload)
  rendered,   \* payload handed to render_status by the last command
  log,        \* external commands and mutating system calls of the last command
  exit_code,  \* typer.Exit code of the last command
  nops,       \* number of commands issued so far
  faults,     \* number of failed mutating commands / system calls so far
  last,       \* the last command line
  session     \* non-dry-run 'on' commands since the last non-dry-run 'off'

sysvars == <<ctx, host, file, rendered, log, exit_code, nops, faults, last, session>>

(***************************************************************************)
(* State of one planner-mode launch (launch without a script)              *)
(***************************************************************************)
VARIABLES
  machine,        \* what build_context and the built-in actions read and change
  plugin_dir,     \* the files of .hydra/launch.d
  pc,             \* where launch_command stands
  opts,           \* the options of the launch, None before it starts
  built,          \* what build_plan returned, None before it ran
  selected_ids,   \* ids chosen by _auto_selection or by the operator
  results,        \* the results list of the apply loop
  attempts,       \* what each apply of the loop tried to return (history)
  hook_warnings,  \* warnings collected from the hooks
  hooks_run,      \* the hooks called so far, each with how it ended (history)
  report,         \* the report handed to _write_report_if_enabled, None if none
  latest_json,    \* .hydra/state/launch_latest.json
  out_json,       \* the file named by --out
  launch_exit,    \* typer.Exit code of the launch, None while it runs
  launch_log      \* external commands the launch has run

planvars == <<machine, plugin_dir, pc, opts, built, selected_ids, results, attempts,
              hook_warnings, hooks_run, report, latest_json, out_json, launch_exit,
              launch_log>>

(***************************************************************************)
(* State of the library calls made outside a launch: the registry module,  *)
(* filter_actions, load_plugins and build_plan called directly             *)
(***************************************************************************)
VARIABLES
  _REGISTRY,    \* registry._REGISTRY: the dict's items in insertion order
  registered,   \* the actions passed to register_action since the last clear
  listed,       \* what the last get_actions returned, None once the dict changed
  filter_args,  \* the arguments of a filter_actions call, None before one is set up
  filtered,     \* what that filter_actions call returned, None before it ran
  load_result,  \* what load_plugins returned for plugin_dir, None before it ran
  build_args,   \* the arguments of the build_plan calls, None before they are set up
  plans,        \* the plans the build_plan calls returned, with their clocks
  apply_calls   \* the direct calls of a built-in action's apply (history)

libvars == <<_REGISTRY, registered, listed, filter_args, filtered, load_result, build_args,
             plans, apply_calls>>

(***************************************************************************)
(* State of one script-mode launch (launch with a training script)         *)
(***************************************************************************)
VARIABLES
  spc,               \* where launch_command stands in script mode
  sopts,             \* the options of the script-mode launch, None before it starts
  shell_host,        \* the host as the launch process found it, None before it starts
  accel_calls,       \* the execute_acceleration_action calls of the launch (history)
  runs,              \* number of _run_once calls of launch_training_script (history)
  script_attempts,   \* launch_training_script's attempts list
  restarts_used,     \* launch_training_script's restarts_used
  current_args,      \* launch_training_script's current_args
  latest_checkpoint, \* launch_training_script's latest_checkpoint
  launch_report,     \* what launch_training_script returned, None if it has not returned
  raised,            \* the exception leaving launch_command's try block, None if none
  script_exit        \* typer.Exit code of the script-mode launch, None while it runs

scriptvars == <<spc, sopts, shell_host, accel_calls, runs, script_attempts, restarts_used,
                current_args, latest_checkpoint, launch_report, raised, script_exit>>

vars == <<sysvars, planvars, libvars, scriptvars>>

\* no script-mode launch is running or has run
NoScript ==
  /\ spc = "idle"
  /\ sopts = None
  /\ shell_host = None
  /\ accel_calls = <<>>
  /\ runs = 0
  /\ script_attempts = <<>>
  /\ restarts_used = 0
  /\ current_args = <<>>
  /\ latest_checkpoint = None
  /\ launch_report = None
  /\ raised = None
  /\ script_exit = None

\* no library call was made
NoLibraryCall ==
  /\ _REGISTRY = <<>>
  /\ registered = <<>>
  /\ listed = None
  /\ filter_args = None
  /\ filtered = None
  /\ load_result = None
  /\ build_args = None
  /\ plans = <<>>
  /\ apply_calls = <<>>

\* no launch is running or has run
NoLaunch ==
  /\ pc = "idle"
  /\ opts = None
  /\ built = None
  /\ selected_ids = {}
  /\ results = <<>>
  /\ attempts = <<>>
  /\ hook_warnings = <<>>
  /\ hooks_run = <<>>
  /\ report = None
  /\ latest_json = None
  /\ out_json = None
  /\ launch_exit = None
  /\ launch_log = <<>>

Platforms == {"linux", "windows", "darwin"}

\* what the host lacks: an unreadable tunable or a missing tool
Missing(c, h) ==
  (IF c.is_linux /\ h.governor = None THEN {"governor"} ELSE {})
    \cup (IF c.is_linux /\ h.swappiness = None THEN {"swappiness"} ELSE {})
    \cup (IF c.is_linux /\ ~h.cpupower THEN {"cpupower"} ELSE {})
    \cup (IF h.rlimit = None THEN {"rlimit"} ELSE {})
    \cup (IF c.nvidia_present /\ ~h.nvq_ok THEN {"nvq"} ELSE {})
    \cup (IF c.is_windows /\ h.priority = None THEN {"priority"} ELSE {})
    \cup (IF c.is_windows /\ h.power_plan = None THEN {"power_plan"} ELSE {})

HostsOf(c) ==
  {h \in
     [governor : IF c.is_linux THEN {None, Some("powersave")} ELSE {None},
      swappiness : IF c.is_linux THEN {None, Some(60)} ELSE {None},
      cpupower : IF c.is_linux THEN BOOLEAN ELSE {FALSE},
      nice : {0},
      rlimit : {None, Some([soft |-> 1024, hard |-> 1048576])},
      nvq_ok : IF c.nvidia_present THEN BOOLEAN ELSE {FALSE},
      persistence : IF c.nvidia_present THEN {"enabled", "disabled"} ELSE {"disabled"},
      priority : IF c.is_windows THEN {None, Some(NormalPriority)} ELSE {None},
      power_plan : IF c.is_windows THEN {None, Some(BalancedPlan)} ELSE {None}] :
     Cardinality(Missing(c, h)) <= MaxMissing}

\* outcomes of the mutating commands and system calls of one pass: a tool
\* the pass cannot run on this platform, scope and mode keeps the default
OutcomeDomain(c, pass, fl) ==
  LET cpu == ~fl.dry_run /\ (pass = "restore" \/ ~fl.gpu_only)
      gpu == ~fl.dry_run /\ (pass = "restore" \/ ~fl.cpu_only)
  IN [cpupower |-> IF cpu /\ c.is_linux /\ c.is_root THEN Outcomes ELSE {OkOutcome},
      sysctl |-> IF cpu /\ c.is_linux /\ c.is_root THEN Outcomes ELSE {OkOutcome},
      nvidia_pm |-> IF gpu /\ c.nvidia_present /\ c.is_root THEN Outcomes ELSE {OkOutcome},
      powercfg |-> IF cpu /\ c.is_windows THEN Outcomes ELSE {OkOutcome},
      nice |-> IF cpu /\ c.is_linux /\ pass = "apply" THEN SysOutcomes ELSE {OkOutcome},
      setrlimit |-> IF cpu /\ c.is_linux THEN SysOutcomes ELSE {OkOutcome},
      psutil |-> IF cpu /\ c.is_windows THEN SysOutcomes ELSE {OkOutcome}]

OutcomesOf(c, pass, fl) ==
  LET D == OutcomeDomain(c, pass, fl)
  IN [cpupower : D.cpupower, sysctl : D.sysctl, nvidia_pm : D.nvidia_pm,
      powercfg : D.powercfg, nice : D.nice, setrlimit : D.setrlimit, psutil : D.psutil]

Tools == {"cpupower", "sysctl", "nvidia_pm", "powercfg", "nice", "setrlimit", "psutil"}

Ran(lg, tool) == \E i \in 1..Len(lg) : lg[i].tool = tool

\* an outcome is drawn only for a tool the pass ran
Canonical(oc, lg) == \A t \in Tools : ~Ran(lg, t) => oc[t] = OkOutcome

FaultCount(oc) == Cardinality({t \in Tools : oc[t].code # 0})

\* the outcomes the remaining fault budget allows
Affordable(c, pass, fl, used) ==
  {oc \in OutcomesOf(c, pass, fl) : used + FaultCount(oc) <= MaxFaults}

\* history of the current (or last) acceleration session: the snapshot, host
\* and command line of its first non-dry-run 'on', the changes of its latest
\* 'on', and whether a non-dry-run 'off' has closed it
NoSession == [count |-> 0, closed |-> TRUE, previous_state |-> None, host |-> None,
              first |-> None, applied |-> <<>>]

\* Each command is one process: niceness, the open-file limit and the Windows
\* priority class belong to that process ("for current process only") and
\* the next command starts again from the values of the invoking shell.
ProcessExit(before, after) ==
  [after EXCEPT !.nice = before.nice, !.rlimit = before.rlimit,
                !.priority = before.priority]

\* mutant: the payload is saved whatever dry_run says
Persist_Always(dry_run, payload, f) == save_state(payload)

\* if not dry_run: save_state(payload, Path.cwd())
Persist(dry_run, payload, f) == IF ~dry_run THEN save_state(payload) ELSE f

SysInit ==
  /\ \E p \in Platforms, root \in BOOLEAN, nv \in BOOLEAN :
       ctx = detect_context(p, root, nv)
  /\ host \in HostsOf(ctx)
  /\ file = None
  /\ rendered = None
  /\ log = <<>>
  /\ exit_code = None
  /\ nops = 0
  /\ faults = 0
  /\ last = None
  /\ session = NoSession
  /\ machine = None
  /\ plugin_dir = {}
  /\ NoLaunch
  /\ NoLibraryCall
  /\ NoScript

Flags == [on : BOOLEAN, off : BOOLEAN, status : BOOLEAN,
          dry_run : BOOLEAN, cpu_only : BOOLEAN, gpu_only : BOOLEAN]

Selected(fl) == (IF fl.on THEN 1 ELSE 0) + (IF fl.off THEN 1 ELSE 0)
                  + (IF fl.status THEN 1 ELSE 0)

UsageError(fl) == (fl.cpu_only /\ fl.gpu_only) \/ Selected(fl) > 1

\* the status and usage-error branches never read dry_run
UsageFlags == {fl \in Flags : UsageError(fl) /\ ~fl.dry_run}
StatusFlags == {fl \in Flags : ~UsageError(fl) /\ (fl.status \/ Selected(fl) = 0) /\ ~fl.dry_run}
OnFlags == {fl \in Flags : ~UsageError(fl) /\ fl.on}
OffFlags == {fl \in Flags : ~UsageError(fl) /\ fl.off}

\* accelerate_command: usage errors end the command with exit code 2
CmdUsage(fl) ==
  /\ nops < MaxOps
  /\ UsageError(fl)
  /\ exit_code' = Some(2)
  /\ rendered' = None
  /\ log' = <<>>
  /\ nops' = nops + 1
  /\ last' = Some([cmd |-> "usage"])
  /\ UNCHANGED <<ctx, host, file, faults, session>>
  /\ UNCHANGED <<planvars, libvars>>

\* accelerate_command --status (also the default when no flag is given)
CmdStatus(fl) ==
  /\ nops < MaxOps
  /\ ~UsageError(fl)
  /\ fl.status \/ Selected(fl) = 0
  /\ LET current == load_state(file)
     IN rendered' = IF current = None
                      THEN Some([active |-> FALSE, platform |-> ctx.platform,
                                 changes_applied |-> <<>>, previous_state |-> <<>>,
                                 failures |-> <<>>])
                      ELSE current
  /\ exit_code' = Some(0)
  /\ log' = <<>>
  /\ nops' = nops + 1
  /\ last' = Some([cmd |-> "status"])
  /\ UNCHANGED <<ctx, host, file, faults, session>>
  /\ UNCHANGED <<planvars, libvars>>

\* the 'on' branch; exits says whether the calling process ends with it
ToggleOn(fl, oc, exits) ==
  /\ nops < MaxOps
  /\ ~UsageError(fl)
  /\ fl.on
  /\ last' = Some([cmd |-> "on", dry_run |-> fl.dry_run,
                   cpu_only |-> fl.cpu_only, gpu_only |-> fl.gpu_only])
  /\ LET previous_state == capture_previous_state(ctx, host, fl.cpu_only, fl.gpu_only)
         res == apply_acceleration(ctx, previous_state, fl.dry_run,
                                   fl.cpu_only, fl.gpu_only, oc, host)
         payload == [active |-> ~fl.dry_run, platform |-> ctx.platform,
                     changes_applied |-> res.changes,
                     previous_state |-> previous_state,
                     failures |-> res.failures,
                     mode |-> IF fl.dry_run THEN "dry-run" ELSE "on"]
     IN /\ Canonical(oc, res.log)
        /\ host' = IF exits THEN ProcessExit(host, res.host) ELSE res.host
        /\ file' = Persist(fl.dry_run, payload, file)
        /\ rendered' = Some(payload)
        /\ log' = CaptureLog(ctx, fl.cpu_only, fl.gpu_only) \o res.log
        /\ session' = IF fl.dry_run THEN session
                      ELSE IF session.closed
                        THEN [count |-> 1, closed |-> FALSE,
                              previous_state |-> Some(previous_state),
                              host |-> Some(host), first |-> last',
                              applied |-> res.changes]
                      ELSE [session EXCEPT !.count = @ + 1, !.applied = res.changes]
  /\ faults' = faults + FaultCount(oc)
  /\ exit_code' = Some(0)
  /\ nops' = nops + 1
  /\ UNCHANGED ctx

\* accelerate_command --on
CmdOn(fl, oc) ==
  /\ ToggleOn(fl, oc, TRUE)
  /\ UNCHANGED <<planvars, libvars>>

\* the 'off' branch with no state file
ToggleOffNoState(fl) ==
  /\ nops < MaxOps
  /\ ~UsageError(fl)
  /\ fl.off
  /\ load_state(file) = None
  /\ rendered' = Some([active |-> FALSE, platform |-> ctx.platform,
                       changes_applied |-> <<>>, previous_state |-> <<>>,
                       failures |-> <<>>, mode |-> "off",
                       message |-> "No active acceleration state found."])
  /\ exit_code' = Some(0)
  /\ log' = <<>>
  /\ nops' = nops + 1
  /\ last' = Some([cmd |-> "off", dry_run |-> fl.dry_run])
  /\ UNCHANGED <<ctx, host, file, faults, session>>

\* accelerate_command --off with no state file
CmdOffNoState(fl) ==
  /\ ToggleOffNoState(fl)
  /\ UNCHANGED <<planvars, libvars>>

\* the 'off' branch with a state file: restore from its snapshot
ToggleOffRestore(fl, oc, exits) ==
  /\ nops < MaxOps
  /\ ~UsageError(fl)
  /\ fl.off
  /\ load_state(file) # None
  /\ LET existing == Val(load_state(file))
         previous_state == existing.previous_state
         res == restore_acceleration(ctx, previous_state, fl.dry_run, oc, host)
         payload == [active |-> FALSE, platform |-> ctx.platform,
                     changes_applied |-> res.changes,
                     previous_state |-> previous_state,
                     failures |-> res.failures,
                     mode |-> IF fl.dry_run THEN "dry-run" ELSE "off"]
     IN /\ Canonical(oc, res.log)
        /\ host' = IF exits THEN ProcessExit(host, res.host) ELSE res.host
        /\ file' = Persist(fl.dry_run, payload, file)
        /\ rendered' = Some(payload)
        /\ log' = res.log
        /\ session' = IF fl.dry_run THEN session ELSE [session EXCEPT !.closed = TRUE]
  /\ faults' = faults + FaultCount(oc)
  /\ last' = Some([cmd |-> "off", dry_run |-> fl.dry_run])
  /\ exit_code' = Some(0)
  /\ nops' = nops + 1
  /\ UNCHANGED ctx

\* accelerate_command --off with a state file
CmdOffRestore(fl, oc) ==
  /\ ToggleOffRestore(fl, oc, TRUE)
  /\ UNCHANGED <<planvars, libvars>>

\* system_cli.accelerate_command called with the flags fl
accelerate_command(fl) ==
  IF UsageError(fl) THEN CmdUsage(fl)
  ELSE IF fl.status \/ Selected(fl) = 0 THEN CmdStatus(fl)
  ELSE IF fl.on THEN \E oc \in Affordable(ctx, "apply", fl, faults) : CmdOn(fl, oc)
  ELSE \/ CmdOffNoState(fl)
       \/ \E oc \in Affordable(ctx, "restore", fl, faults) : CmdOffRestore(fl, oc)

\* the accelerate commands leave the variables of a script-mode launch to their caller
SysNext ==
  \/ \E fl \in UsageFlags : CmdUsage(fl) /\ UNCHANGED scriptvars
  \/ \E fl \in StatusFlags : CmdStatus(fl) /\ UNCHANGED scriptvars
  \/ \E fl \in OnFlags : \E oc \in Affordable(ctx, "apply", fl, faults) :
       CmdOn(fl, oc) /\ UNCHANGED scriptvars
  \/ \E fl \in OffFlags : CmdOffNoState(fl) /\ UNCHANGED scriptvars
  \/ \E fl \in OffFlags : \E oc \in Affordable(ctx, "restore", fl, faults) :
       CmdOffRestore(fl, oc) /\ UNCHANGED scriptvars

SysSpec == SysInit /\ [][SysNext]_vars


(***************************************************************************)
(* Vocabulary of the claims about the toggle                               *)
(***************************************************************************)
\* the state is the one a non-dry-run or dry-run 'on' left
AfterOn == last # None /\ Val(last).cmd = "on"
\* the state is the one an 'off' that found a state file left
AfterRestore ==
  /\ last # None /\ Val(last).cmd = "off"
  /\ "message" \notin DOMAIN Val(rendered)

Changes == Val(rendered).changes_applied
Snapshot == Val(rendered).previous_state
Names(chs) == [i \in 1..Len(chs) |-> chs[i].name]
ChangesNamed(chs, n) == {i \in 1..Len(chs) : chs[i].name = n}
HasChange(chs, n, result, message) ==
  \E i \in 1..Len(chs) :
    chs[i].name = n /\ chs[i].result = result /\ chs[i].message = message

SnapshotKeys == {"cpu_governor", "swappiness", "nice", "rlimit_nofile",
                 "nvidia_persistence_mode", "process_priority", "power_plan_guid"}

\* name of the change record and of the mutating tool of each snapshot key
ChangeName(k) ==
  CASE k = "cpu_governor" -> "cpu_governor"
    [] k = "swappiness" -> "swappiness"
    [] k = "nice" -> "process_nice"
    [] k = "rlimit_nofile" -> "ulimit_nofile"
    [] k = "nvidia_persistence_mode" -> "nvidia_persistence"
    [] k = "process_priority" -> "windows_process_priority"
    [] k = "power_plan_guid" -> "windows_power_plan"

ToolOf(k) ==
  CASE k = "cpu_governor" -> "cpupower"
    [] k = "swappiness" -> "sysctl"
    [] k = "nice" -> "nice"
    [] k = "rlimit_nofile" -> "setrlimit"
    [] k = "nvidia_persistence_mode" -> "nvidia_pm"
    [] k = "process_priority" -> "psutil"
    [] k = "power_plan_guid" -> "powercfg"

\* every tool that ran had its outcome drawn from more than the default
OutcomesCoverLog ==
  (AfterOn \/ AfterRestore) =>
    \A i \in 1..Len(log) :
      log[i].mutating =>
        Cardinality(OutcomeDomain(ctx, IF AfterOn THEN "apply" ELSE "restore",
            [dry_run |-> Val(last).dry_run,
             cpu_only |-> AfterOn /\ Val(last).cpu_only,
             gpu_only |-> AfterOn /\ Val(last).gpu_only])[log[i].tool]) > 1

(***************************************************************************)
(* C1: performing 'on' twice without an intervening 'off' keeps, in the    *)
(* persisted snapshot, the values read before the first 'on'.              *)
(***************************************************************************)
C1_RepeatedOnKeepsFirstSnapshot ==
  (ctx.is_linux /\ ~session.closed /\ session.count >= 2 /\ last = session.first)
    => Val(file).previous_state = Val(session.previous_state)


(***************************************************************************)
(* C2: round trip on a Linux host, as root, tools present, every command   *)
(* succeeding: after capture recorded governor=powersave and swappiness=60 *)
(* and apply set performance / 10, the restore reports a 'restored' change *)
(* for both, the host values equal the captured ones again, and a tunable  *)
(* absent from the snapshot gets no change and no command.                 *)
(***************************************************************************)
C2_Case ==
  /\ AfterRestore /\ ~Val(last).dry_run
  /\ ctx.is_linux /\ ctx.is_root /\ host.cpupower /\ faults = 0
  /\ session.count = 1 /\ session.closed
  /\ Snapshot = Val(session.previous_state)
  /\ Get(Snapshot, "cpu_governor") = Some("powersave")
  /\ Get(Snapshot, "swappiness") = Some(60)
  /\ HasChange(session.applied, "cpu_governor", "applied", "set to performance")
  /\ HasChange(session.applied, "swappiness", "applied", "vm.swappiness set to 10")

C2_RoundTrip ==
  C2_Case =>
    /\ HasChange(Changes, "cpu_governor", "restored", "restored governor=powersave")
    /\ HasChange(Changes, "swappiness", "restored", "restored vm.swappiness=60")
    /\ host.governor = Some("powersave")
    /\ host.swappiness = Some(60)
    /\ \A k \in SnapshotKeys :
         Get(Snapshot, k) = None =>
           ChangesNamed(Changes, ChangeName(k)) = {} /\ ~Ran(log, ToolOf(k))

\* the round trip on a GPU-less host
C2_Witness ==
  /\ C2_Case
  /\ ~ctx.nvidia_present
  /\ "nvidia_persistence_mode" \notin DOMAIN Snapshot
  /\ host.governor = Some("powersave") /\ host.swappiness = Some(60)

(***************************************************************************)
(* C3: for a snapshot produced by exactly one capture, a non-dry-run       *)
(* restore holds exactly one change for every tunable present in the       *)
(* snapshot.                                                               *)
(***************************************************************************)
C3_RestoreCoversEveryCapturedTunable ==
  (/\ AfterRestore /\ ~Val(last).dry_run
   /\ ctx.is_linux
   /\ session.count = 1 /\ Snapshot = Val(session.previous_state))
    => \A k \in SnapshotKeys :
         Get(Snapshot, k) # None =>
           Cardinality(ChangesNamed(Changes, ChangeName(k))) = 1

(***************************************************************************)
(* C4: restore never restores and never defaults a tunable missing from    *)
(* the snapshot (key absent or null): no change record and no command for  *)
(* it, while the keys that are present are still restored one by one.      *)
(***************************************************************************)
\* the keys the restore pass reads on this platform
RestoredKeys(c) ==
  (IF c.is_linux THEN {"cpu_governor", "swappiness", "rlimit_nofile"} ELSE {})
    \cup (IF c.nvidia_present THEN {"nvidia_persistence_mode"} ELSE {})
    \cup (IF c.is_windows THEN {"process_priority", "power_plan_guid"} ELSE {})

C4_MissingNeverRestored ==
  AfterRestore =>
    /\ \A k \in SnapshotKeys :
         Get(Snapshot, k) = None =>
           ChangesNamed(Changes, ChangeName(k)) = {} /\ ~Ran(log, ToolOf(k))
    /\ \A k \in RestoredKeys(ctx) :
         Get(Snapshot, k) # None =>
           Cardinality(ChangesNamed(Changes, ChangeName(k))) = 1

\* a null governor and an absent GPU key are skipped, swappiness is restored
C4_Witness ==
  /\ AfterRestore /\ ~Val(last).dry_run
  /\ ctx.is_linux /\ ctx.nvidia_present
  /\ "cpu_governor" \in DOMAIN Snapshot /\ Snapshot["cpu_governor"] = None
  /\ "nvidia_persistence_mode" \notin DOMAIN Snapshot
  /\ HasChange(Changes, "swappiness", "restored", "restored vm.swappiness=60")
  /\ ChangesNamed(Changes, "cpu_governor") = {}
  /\ ChangesNamed(Changes, "nvidia_persistence") = {}

(***************************************************************************)
(* C5: in the snapshot capture_previous_state returns, a tunable that      *)
(* could not be read is absent as a key; no key holds a null placeholder.  *)
(***************************************************************************)
C5_NoPlaceholderInSnapshot ==
  (AfterOn /\ ctx.is_linux) => \A k \in DOMAIN Snapshot : Snapshot[k] # None

(***************************************************************************)
(* C6: with dry_run set, 'on' and 'off' execute no external command and no *)
(* mutating system call and leave the persisted snapshot file untouched.   *)
(***************************************************************************)
DryRunStep ==
  /\ nops' = nops + 1
  /\ Val(last').cmd \in {"on", "off"}
  /\ Val(last').dry_run

\* as claimed: no external command at all (stated here for Linux hosts)
C6_DryRunRunsNoCommand ==
  [][(DryRunStep /\ ctx.is_linux) => (log' = <<>> /\ file' = file /\ host' = host)]_sysvars

\* as the code behaves: nothing mutating runs, the file and the host are
\* untouched; the read-only queries of the capture may run
C6_DryRunMutatesNothing ==
  [][DryRunStep =>
       /\ file' = file
       /\ host' = host
       /\ \A i \in 1..Len(log') :
            ~log'[i].mutating /\ log'[i].tool \in {"nvidia_query", "powercfg_query"}]_sysvars

\* 'off --dry-run' on an active state file that plans at least one restore
C6_Witness ==
  /\ AfterRestore /\ Val(last).dry_run
  /\ file # None /\ Val(file).active
  /\ Len(Changes) > 0
  /\ \A i \in 1..Len(Changes) : Changes[i].result = "planned"
  /\ log = <<>>

(***************************************************************************)
(* C7: a dry-run apply records one 'planned' change for every tunable      *)
(* applicable to the host and scope, and every 'planned' change carries    *)
(* the literal command that would run.                                     *)
(***************************************************************************)
\* the change names of the tunables a dry-run 'on' can act on here
ApplicableNames(c, snap, cpu_only, gpu_only) ==
  (IF c.is_linux /\ ~gpu_only
     THEN (IF Get(snap, "cpu_governor") # None THEN {"cpu_governor"} ELSE {})
            \cup (IF Get(snap, "nice") # None THEN {"process_nice"} ELSE {})
            \cup (IF Get(snap, "swappiness") # None THEN {"swappiness"} ELSE {})
            \cup (IF Get(snap, "rlimit_nofile") # None THEN {"ulimit_nofile"} ELSE {})
     ELSE {})
    \cup (IF c.is_windows /\ ~gpu_only
            THEN {"windows_process_priority", "windows_power_plan"} ELSE {})
    \cup (IF c.nvidia_present /\ ~cpu_only THEN {"nvidia_persistence"} ELSE {})

C7_DryRunPlansEveryTunableWithCommand ==
  (AfterOn /\ Val(last).dry_run /\ ctx.is_linux) =>
    /\ \A n \in ApplicableNames(ctx, Snapshot, Val(last).cpu_only, Val(last).gpu_only) :
         \E i \in 1..Len(Changes) :
           /\ Changes[i].name = n /\ Changes[i].result = "planned"
           /\ \A j \in 1..Len(Changes) : Changes[j].name = n => j = i
    /\ \A i \in 1..Len(Changes) :
         Changes[i].result = "planned" => Changes[i].command # None

(***************************************************************************)
(* C8: a failing tunable never stops the pass: whatever fails, is skipped  *)
(* or succeeds, every tunable of the pass gets its own change record, in   *)
(* the order of the code, and the command ends normally.                   *)
(***************************************************************************)
ExpectedApplyNames(c, cpu_only, gpu_only) ==
  (IF c.is_linux /\ ~gpu_only
     THEN <<"cpu_governor">> \o (IF HasNice(c) THEN <<"process_nice">> ELSE <<>>)
            \o <<"swappiness", "ulimit_nofile">>
     ELSE <<>>)
  \o (IF c.is_windows /\ ~gpu_only
        THEN <<"windows_process_priority", "windows_power_plan">> ELSE <<>>)
  \o (IF (c.nvidia_present /\ ~cpu_only) \/ ~gpu_only
        THEN <<"nvidia_persistence">> ELSE <<>>)

ExpectedRestoreNames(c, snap) ==
  LET one(k) == IF k \in RestoredKeys(c) /\ Get(snap, k) # None
                  THEN <<ChangeName(k)>> ELSE <<>>
  IN one("cpu_governor") \o one("swappiness") \o one("rlimit_nofile")
       \o one("nvidia_persistence_mode") \o one("process_priority")
       \o one("power_plan_guid")

C8_FailureNeverStopsPass ==
  /\ AfterOn =>
       /\ Names(Changes) = ExpectedApplyNames(ctx, Val(last).cpu_only, Val(last).gpu_only)
       /\ exit_code = Some(0)
  /\ AfterRestore =>
       /\ Names(Changes) = ExpectedRestoreNames(ctx, Snapshot)
       /\ exit_code = Some(0)

\* two commands of one apply pass fail and the tunables after them are
\* still attempted
C8_Witness ==
  /\ AfterOn /\ ~Val(last).dry_run
  /\ ctx.is_linux /\ ctx.nvidia_present
  /\ Len(Changes) = 5
  /\ Changes[1].name = "cpu_governor" /\ Changes[1].result = "failed"
  /\ Changes[3].name = "swappiness" /\ Changes[3].result = "failed"
  /\ Changes[4].name = "ulimit_nofile" /\ Changes[4].result = "applied"
  /\ Changes[5].name = "nvidia_persistence" /\ Changes[5].result = "applied"


(***************************************************************************)
(* Planner mode: models.py, registry.py, the built-in actions              *)
(***************************************************************************)
MaxPluginFiles == 2
MaxVariation == 2

PROFILE_ORDER ==
  [p \in {"minimal", "balanced", "max", "expert"} |->
     CASE p = "minimal" -> 0 [] p = "balanced" -> 1 [] p = "max" -> 2 [] p = "expert" -> 3]

profile_gte(profile, minimum) ==
  (IF profile \in DOMAIN PROFILE_ORDER THEN PROFILE_ORDER[profile] ELSE 0 - 1)
    >= (IF minimum \in DOMAIN PROFILE_ORDER THEN PROFILE_ORDER[minimum] ELSE 0 - 1)

\* the launch options are lower-case already: strip().lower() leaves them
normalize_profile(profile) ==
  IF profile \notin DOMAIN PROFILE_ORDER THEN "balanced" ELSE profile

\* Python truthiness of an Optional[str]
Truthy(s) == s # None /\ Val(s) # ""

\* mutant: construction accepts a result without a reason
__post_init__Accepts(r) == "ok"

\* AccelerationActionResult.__post_init__
__post_init__(r) ==
  IF ~r.applied /\ ~Truthy(r.skipped_reason) THEN "ValueError" ELSE "ok"

ValueErrorText == "ValueError: skipped_reason is required when applied is False"

\* the constructor: the frozen instance, or the exception it raises
AccelerationActionResult(r) ==
  IF __post_init__(r) = "ValueError"
    THEN [raised |-> TRUE, exc |-> ValueErrorText]
    ELSE [raised |-> FALSE, value |-> r]

Returned(r) == [raised |-> FALSE, value |-> r]
Raised(text) == [raised |-> TRUE, exc |-> text]

\* "; ".join(notes)
RECURSIVE JoinNotes(_)
JoinNotes(notes) ==
  IF notes = <<>> THEN ""
  ELSE IF Len(notes) = 1 THEN notes[1]
  ELSE notes[1] \o "; " \o JoinNotes(Tail(notes))

\* x or default, for strings
StrOr(x, default) == IF x = "" THEN default ELSE x

\* the three built-in actions (class attributes)
CpuGovernorAction ==
  [id |-> "cpu.governor", category |-> "cpu", risk |-> "medium",
   requires_root |-> TRUE, platforms |-> {"linux"}, profile_min |-> "minimal",
   impl |-> "cpu_governor"]
NvidiaPersistenceAction ==
  [id |-> "gpu.nvidia_persistence", category |-> "gpu", risk |-> "medium",
   requires_root |-> TRUE, platforms |-> {"linux"}, profile_min |-> "minimal",
   impl |-> "nvidia_persistence"]
ProcessPriorityAction ==
  [id |-> "process.priority", category |-> "process", risk |-> "low",
   requires_root |-> FALSE, platforms |-> {"linux", "windows", "macos"},
   profile_min |-> "minimal", impl |-> "process_priority"]

\* actions a plugin file may register; two take the id of a built-in
PluginActions ==
  {[id |-> "cpu.governor", category |-> "cpu", risk |-> "high",
    requires_root |-> FALSE, platforms |-> {"linux", "windows", "macos"},
    profile_min |-> "minimal", impl |-> "plugin"],
   [id |-> "zz.custom", category |-> "custom", risk |-> "low",
    requires_root |-> FALSE, platforms |-> {"linux", "windows", "macos"},
    profile_min |-> "minimal", impl |-> "plugin"],
   [id |-> "aa.tuned", category |-> "custom", risk |-> "high",
    requires_root |-> FALSE, platforms |-> {"linux", "windows", "macos"},
    profile_min |-> "max", impl |-> "plugin"],
   [id |-> "cpu.governor", category |-> "cpu", risk |-> "low",
    requires_root |-> FALSE, platforms |-> {"linux", "windows", "macos"},
    profile_min |-> "minimal", impl |-> "plugin"]}

PluginAction(id, risk) == CHOOSE a \in PluginActions : a.id = id /\ a.risk = risk

\* the action ids of the model in Python's string order
IdOrder == <<"GPU.Boost", "aa.tuned", "cpu.governor", "cpu.two", "cpu.zero",
             "gpu.nvidia_persistence", "gpu.one", "process.priority",
             "process.three", "zz.custom">>
IdRank(id) == CHOOSE i \in 1..Len(IdOrder) : IdOrder[i] = id

\* sorted(items, key=...): a stable insertion sort on the rank of the key
RECURSIVE InsertByRank(_, _)
InsertByRank(sorted, x) ==
  IF sorted = <<>> THEN <<x>>
  ELSE IF x.rank < Head(sorted).rank
    THEN <<x>> \o sorted
    ELSE <<Head(sorted)>> \o InsertByRank(Tail(sorted), x)

RECURSIVE SortByRank(_)
SortByRank(ranked) ==
  IF ranked = <<>> THEN <<>>
  ELSE InsertByRank(SortByRank(SubSeq(ranked, 1, Len(ranked) - 1)),
                    ranked[Len(ranked)])

\* sorted(actions, key=lambda item: item.id)
SortedActions(items) ==
  LET ranked == [i \in 1..Len(items) |-> [rank |-> IdRank(items[i].id), item |-> items[i]]]
      out == SortByRank(ranked)
  IN [i \in 1..Len(out) |-> out[i].item]

\* sorted(results, key=lambda result: result.action_id), also for descriptors
SortedByActionId(items) ==
  LET ranked == [i \in 1..Len(items) |->
                   [rank |-> IdRank(items[i].action_id), item |-> items[i]]]
      out == SortByRank(ranked)
  IN [i \in 1..Len(out) |-> out[i].item]

\* registry.py: _REGISTRY is a dict, kept here as its items in insertion order
clear_registry == <<>>

\* mutant: an id that is registered already keeps its first action
register_action_KeepsFirst(reg, action) ==
  IF \E i \in 1..Len(reg) : reg[i].id = action.id THEN reg ELSE Append(reg, action)

register_action(reg, action) ==
  IF \E i \in 1..Len(reg) : reg[i].id = action.id
    THEN [i \in 1..Len(reg) |-> IF reg[i].id = action.id THEN action ELSE reg[i]]
    ELSE Append(reg, action)

register_builtin_actions(reg) ==
  register_action(register_action(register_action(reg, CpuGovernorAction),
                                  NvidiaPersistenceAction), ProcessPriorityAction)

get_actions(reg) == SortedActions(reg)

\* str.lower() on the strings of the model that are not lower-case already
lower(s) ==
  CASE s = "GPU" -> "gpu"
    [] s = "CPU" -> "cpu"
    [] s = "Cpu" -> "cpu"
    [] s = "GPU.Boost" -> "gpu.boost"
    [] s = "Process.Three" -> "process.three"
    [] OTHER -> s

\* {value.lower() for value in values} if values else None
LowerSet(values) ==
  IF values # None /\ Val(values) # {} THEN Some({lower(v) : v \in Val(values)}) ELSE None

\* PROFILE_ORDER.get(name, PROFILE_ORDER[default])
ProfileLevel(name, default) ==
  IF name \in DOMAIN PROFILE_ORDER THEN PROFILE_ORDER[name] ELSE PROFILE_ORDER[default]

\* the loop body of filter_actions: TRUE when the action is appended
Kept(a, only_norm, exclude_norm, required_level) ==
  /\ ~(ProfileLevel(a.profile_min, "minimal") > required_level)
  /\ ~(exclude_norm # None /\ lower(a.category) \in Val(exclude_norm))
  /\ ~(only_norm # None /\ lower(a.category) \notin Val(only_norm)
         /\ lower(a.id) \notin Val(only_norm))

\* mutant: a match in 'only' keeps the action before 'exclude' is looked at
filter_actions_OnlyFirst(actions, only, exclude, profile) ==
  SortedActions(SelectSeq(actions,
    LAMBDA a : \/ Kept(a, LowerSet(only), LowerSet(exclude), ProfileLevel(profile, "balanced"))
               \/ /\ Kept(a, LowerSet(only), None, ProfileLevel(profile, "balanced"))
                  /\ LowerSet(only) # None))

\* only / exclude are None (no --only / --exclude given) or Some(set);
\* categories is never passed
filter_actions(actions, only, exclude, profile) ==
  SortedActions(SelectSeq(actions,
    LAMBDA a : Kept(a, LowerSet(only), LowerSet(exclude), ProfileLevel(profile, "balanced"))))


(***************************************************************************)
(* Planner mode: execution context, check / plan / apply of the actions    *)
(***************************************************************************)
\* plan_builder.build_context
build_context(m) ==
  [os_name |-> m.os_name, is_linux |-> m.os_name = "linux",
   is_windows |-> m.os_name = "windows", is_macos |-> m.os_name = "darwin",
   user_is_root |-> m.user_is_root, has_nvidia_smi |-> m.has_nvidia_smi]

\* build_plan's runtime_ctx: the context with env["ACCELERATE_PROFILE"]
RuntimeCtx(c, profile) ==
  [os_name |-> c.os_name, is_linux |-> c.is_linux, is_windows |-> c.is_windows,
   is_macos |-> c.is_macos, user_is_root |-> c.user_is_root,
   has_nvidia_smi |-> c.has_nvidia_smi, profile |-> profile]

is_platform_supported(a, c) ==
  \/ c.is_linux /\ "linux" \in a.platforms
  \/ c.is_windows /\ "windows" \in a.platforms
  \/ c.is_macos /\ "macos" \in a.platforms

_is_supported_os(c) == c.is_linux \/ c.is_windows \/ c.is_macos

CpupowerCommand == "cpupower frequency-set -g performance"
NvidiaPmCommand == "nvidia-smi -pm 1"
NvidiaQueryCommand == "nvidia-smi -q -d PERFORMANCE"

CmdOutcomes == {"ok", "nonzero", "exception"}

\* the fields of a result the model keeps
Result(a, supported, applied, reason, commands, errors) ==
  [action_id |-> a.id, supported |-> supported, applied |-> applied,
   skipped_reason |-> reason, requires_root |-> a.requires_root, risk |-> a.risk,
   commands |-> commands, errors |-> errors]

\* CpuGovernorAction.check
CpuGovernorAction_check(c, m) ==
  IF ~is_platform_supported(CpuGovernorAction, c)
    THEN [supported |-> FALSE, notes |-> <<"Linux only action">>, ran |-> <<>>]
    ELSE [supported |-> m.cpupower /\ m.governor # None,
          notes |-> (IF ~m.cpupower THEN <<"cpupower not found">> ELSE <<>>)
                      \o (IF m.governor = None
                            THEN <<"scaling governor path missing">> ELSE <<>>),
          ran |-> <<>>]

\* CpuGovernorAction.plan, called once check reported supported
CpuGovernorAction_plan(c, m) ==
  [recommended |-> profile_gte(c.profile, "balanced")
                     /\ m.governor # Some("performance"),
   commands |-> <<CpupowerCommand>>]

\* mutant: the command is run without asking for root
CpuGovernorAction_apply_IgnoresRoot(c, m, oc) ==
  IF ~CpuGovernorAction_check(c, m).supported
    THEN [res |-> AccelerationActionResult(
                    Result(CpuGovernorAction, FALSE, FALSE,
                           Some(StrOr(JoinNotes(CpuGovernorAction_check(c, m).notes),
                                      "Unsupported")),
                           <<>>, <<>>)),
          machine |-> m, ran |-> <<>>]
    ELSE [res |-> AccelerationActionResult(
                    Result(CpuGovernorAction, TRUE, oc = "ok",
                           IF oc = "ok" THEN None ELSE Some("Command execution failed"),
                           <<CpupowerCommand>>,
                           IF oc = "ok" THEN <<>> ELSE <<"OSError: cpupower">>)),
          machine |-> IF oc = "ok" THEN [m EXCEPT !.governor = Some("performance")] ELSE m,
          ran |-> <<CpupowerCommand>>]

\* mutant: whatever keeps the command from succeeding is reported the same way
CpuGovernorAction_apply_Coalesced(c, m, oc) ==
  IF CpuGovernorAction_check(c, m).supported /\ c.user_is_root /\ oc = "ok"
    THEN [res |-> AccelerationActionResult(
                    Result(CpuGovernorAction, TRUE, TRUE, None, <<CpupowerCommand>>, <<>>)),
          machine |-> [m EXCEPT !.governor = Some("performance")],
          ran |-> <<CpupowerCommand>>]
    ELSE [res |-> AccelerationActionResult(
                    Result(CpuGovernorAction, FALSE, FALSE, Some("Unsupported"), <<>>, <<>>)),
          machine |-> m,
          ran |-> IF CpuGovernorAction_check(c, m).supported /\ c.user_is_root
                    THEN <<CpupowerCommand>> ELSE <<>>]

\* CpuGovernorAction.apply; oc is the outcome of subprocess.run
CpuGovernorAction_apply(c, m, oc) ==
  LET a == CpuGovernorAction
      chk == CpuGovernorAction_check(c, m)
  IN IF ~chk.supported
       THEN [res |-> AccelerationActionResult(
                       Result(a, FALSE, FALSE,
                              Some(StrOr(JoinNotes(chk.notes), "Unsupported")),
                              <<>>, <<>>)),
             machine |-> m, ran |-> chk.ran]
     ELSE IF a.requires_root /\ ~c.user_is_root
       THEN [res |-> AccelerationActionResult(
                       Result(a, TRUE, FALSE, Some("Root privileges required"),
                              <<CpupowerCommand>>, <<>>)),
             machine |-> m, ran |-> chk.ran]
     ELSE IF oc = "exception"
       THEN [res |-> AccelerationActionResult(
                       Result(a, TRUE, FALSE, Some("Command execution failed"),
                              <<CpupowerCommand>>, <<"OSError: cpupower">>)),
             machine |-> m, ran |-> Append(chk.ran, CpupowerCommand)]
     ELSE [res |-> AccelerationActionResult(
                     Result(a, TRUE, oc = "ok",
                            IF oc = "ok" THEN None
                            ELSE Some("cpupower returned non-zero exit code"),
                            <<CpupowerCommand>>,
                            IF oc = "ok" THEN <<>> ELSE <<"Unknown cpupower error">>)),
           machine |-> IF oc = "ok" THEN [m EXCEPT !.governor = Some("performance")]
                       ELSE m,
           ran |-> Append(chk.ran, CpupowerCommand)]

\* NvidiaPersistenceAction._read_persistence (nvidia-smi -q -d PERFORMANCE)
_read_persistence(m) ==
  IF m.nvidia_query = "error"
    THEN [supported |-> FALSE,
          notes |-> <<"nvidia-smi -q returned non-zero exit code">>, state |-> None]
  ELSE IF m.nvidia_query = "unparsed"
    THEN [supported |-> TRUE, notes |-> <<"Could not parse persistence mode">>,
          state |-> None]
  ELSE [supported |-> TRUE, notes |-> <<>>, state |-> Some(m.nvidia_query)]

\* NvidiaPersistenceAction.check
NvidiaPersistenceAction_check(c, m) ==
  IF ~is_platform_supported(NvidiaPersistenceAction, c)
    THEN [supported |-> FALSE, notes |-> <<"Linux only action">>, ran |-> <<>>]
  ELSE IF ~c.has_nvidia_smi
    THEN [supported |-> FALSE, notes |-> <<"nvidia-smi not available">>, ran |-> <<>>]
  ELSE [supported |-> _read_persistence(m).supported,
        notes |-> _read_persistence(m).notes, ran |-> <<NvidiaQueryCommand>>]

\* NvidiaPersistenceAction.plan, called once check reported supported
NvidiaPersistenceAction_plan(c, m) ==
  [recommended |-> profile_gte(c.profile, "balanced")
                     /\ _read_persistence(m).state # Some("enabled"),
   commands |-> <<NvidiaPmCommand>>]

\* NvidiaPersistenceAction.apply; oc is the outcome of subprocess.run
NvidiaPersistenceAction_apply(c, m, oc) ==
  LET a == NvidiaPersistenceAction
      chk == NvidiaPersistenceAction_check(c, m)
  IN IF ~chk.supported
       THEN [res |-> AccelerationActionResult(
                       Result(a, FALSE, FALSE,
                              Some(StrOr(JoinNotes(chk.notes), "Unsupported")),
                              <<>>, <<>>)),
             machine |-> m, ran |-> chk.ran]
     ELSE IF a.requires_root /\ ~c.user_is_root
       THEN [res |-> AccelerationActionResult(
                       Result(a, TRUE, FALSE, Some("Root privileges required"),
                              <<NvidiaPmCommand>>, <<>>)),
             machine |-> m, ran |-> chk.ran]
     ELSE IF oc = "exception"
       THEN [res |-> AccelerationActionResult(
                       Result(a, TRUE, FALSE, Some("Command execution failed"),
                              <<NvidiaPmCommand>>, <<"OSError: nvidia-smi">>)),
             machine |-> m, ran |-> Append(chk.ran, NvidiaPmCommand)]
     ELSE [res |-> AccelerationActionResult(
                     Result(a, TRUE, oc = "ok",
                            IF oc = "ok" THEN None
                            ELSE Some("nvidia-smi returned non-zero exit code"),
                            <<NvidiaPmCommand>>,
                            IF oc = "ok" THEN <<>> ELSE <<"Unknown nvidia-smi error">>)),
           machine |-> IF oc = "ok" THEN [m EXCEPT !.nvidia_query = "enabled"] ELSE m,
           ran |-> chk.ran \o <<NvidiaPmCommand, NvidiaQueryCommand>>]

\* ProcessPriorityAction: check always supports, apply is a no-op
ProcessPriorityAction_check(c, m) == [supported |-> TRUE, notes |-> <<>>, ran |-> <<>>]

ProcessPriorityAction_plan(c, m) ==
  [recommended |-> profile_gte(c.profile, "balanced"),
   commands |-> <<"nice -n -5 <your_command>">>]

ProcessPriorityAction_apply(c, m) ==
  [res |-> AccelerationActionResult(
             Result(ProcessPriorityAction, TRUE, FALSE,
                    Some("No-op action. Use suggested command wrappers for training runs."),
                    <<"nice -n -5 <your_command>">>, <<>>)),
   machine |-> m, ran |-> <<>>]


(***************************************************************************)
(* Planner mode: plugins, build_plan, selection and the report             *)
(***************************************************************************)
\* what a plugin action's check / plan do when build_plan calls them: check
\* reports unsupported, check raises, plan raises after a supporting check,
\* plan recommends, plan does not recommend
PluginPlanBehaviours == {"unsupported", "raise", "plan_raise", "recommended", "optional"}
\* what a plugin action's apply does: return an applied result, return a
\* skipped result with a reason, build a skipped result without a reason
\* (None or ""), or raise
PluginApplyBehaviours == {"applied", "declined", "no_reason", "empty_reason", "raise"}

PluginCommand == "plugin-tune"

\* a file of .hydra/launch.d: its name with Path.suffix, whether "post"
\* occurs in Path.stem and whether the name ends with "_hook.py"; for a
\* module, whether its import succeeds, whether it has a callable register,
\* the actions register passes to the callback, whether register then
\* raises, and whether it has callable pre_apply / post_apply
PyFile(name) ==
  [name |-> name, suffix |-> ".py", post_in_stem |-> FALSE, hook_suffix |-> FALSE,
   imports |-> TRUE, has_register |-> FALSE, adds |-> <<>>, register_raises |-> FALSE,
   pre_apply |-> FALSE, post_apply |-> FALSE]

Registering(name, adds, raises) ==
  [PyFile(name) EXCEPT !.has_register = TRUE, !.adds = adds, !.register_raises = raises]

\* the files .hydra/launch.d may hold, in the order of their names
PluginFileOrder ==
  <<[PyFile("broken_import.py") EXCEPT !.imports = FALSE],
    [PyFile("notes.txt") EXCEPT !.suffix = ".txt"],
    Registering("plugin_aa.py", <<PluginAction("aa.tuned", "high")>>, FALSE),
    Registering("plugin_cpu.py", <<PluginAction("cpu.governor", "high")>>, FALSE),
    Registering("plugin_empty.py", <<>>, FALSE),
    Registering("plugin_partial.py", <<PluginAction("cpu.governor", "low")>>, TRUE),
    Registering("plugin_zz.py", <<PluginAction("zz.custom", "low")>>, FALSE),
    [PyFile("post_cleanup.sh") EXCEPT !.suffix = ".sh", !.post_in_stem = TRUE],
    [PyFile("post_hook.py") EXCEPT !.hook_suffix = TRUE, !.post_in_stem = TRUE,
                                   !.post_apply = TRUE],
    [PyFile("pre_hook.py") EXCEPT !.hook_suffix = TRUE, !.pre_apply = TRUE],
    [PyFile("warmup_hook.sh") EXCEPT !.suffix = ".sh"]>>

\* sorted(path for path in plugin_dir.iterdir() if path.is_file())
SortedFiles(dir) == SelectSeq(PluginFileOrder, LAMBDA f : f \in dir)

\* sorted(loaded_files)
SortedNames(names) ==
  LET hit == SelectSeq(PluginFileOrder, LAMBDA f : f.name \in Range(names))
  IN [i \in 1..Len(hit) |-> hit[i].name]

\* load_plugins before its loop
EmptyLoad(reg) ==
  [registry |-> reg, actions_loaded |-> 0,
   hooks |-> [pre_apply_shell |-> <<>>, post_apply_shell |-> <<>>,
              pre_apply_py |-> <<>>, post_apply_py |-> <<>>],
   warnings |-> <<>>, loaded_files |-> <<>>, failures |-> <<>>]

\* the except clause of the loop: the message goes to warnings and failures
LoadFailed(st, f, exc) ==
  [st EXCEPT !.warnings = Append(@, "Plugin load failed for " \o f.name \o ": " \o exc),
             !.failures = Append(@, "Plugin load failed for " \o f.name \o ": " \o exc)]

\* module.register(_counting_register): each call registers and counts
RECURSIVE RegisterEach(_, _)
RegisterEach(st, adds) ==
  IF adds = <<>> THEN st
  ELSE RegisterEach([st EXCEPT !.registry = register_action(@, Head(adds)),
                               !.actions_loaded = @ + 1],
                    Tail(adds))

\* the pre_apply / post_apply callables of a module named *_hook.py
AddPyHooks(st, f) ==
  [st EXCEPT !.hooks.pre_apply_py = IF f.hook_suffix /\ f.pre_apply
                                      THEN Append(@, f.name) ELSE @,
             !.hooks.post_apply_py = IF f.hook_suffix /\ f.post_apply
                                       THEN Append(@, f.name) ELSE @]

\* mutant: a register that adds nothing goes unreported
AfterRegister_Silent(st, f, before) ==
  IF f.register_raises THEN LoadFailed(st, f, "RuntimeError: register failed")
  ELSE AddPyHooks(st, f)

\* the loop body once module.register returned or raised; before is
\* actions_loaded as it was when register was called
AfterRegister(st, f, before) ==
  IF f.register_raises THEN LoadFailed(st, f, "RuntimeError: register failed")
  ELSE AddPyHooks(IF st.actions_loaded = before
                    THEN [st EXCEPT !.warnings =
                            Append(@, "Plugin " \o f.name \o " register() did not add actions")]
                    ELSE st,
                  f)

\* the loop body for a .py file whose name is in loaded_files already
LoadModule(st, f) ==
  IF ~f.imports THEN LoadFailed(st, f, "ImportError: cannot import plugin")
  ELSE IF f.has_register THEN AfterRegister(RegisterEach(st, f.adds), f, st.actions_loaded)
  ELSE AddPyHooks(st, f)

\* the loop body of load_plugins
LoadFile(st, f) ==
  IF f.suffix = ".sh"
    THEN [st EXCEPT !.loaded_files = Append(@, f.name),
                    !.hooks.post_apply_shell = IF f.post_in_stem THEN Append(@, f.name) ELSE @,
                    !.hooks.pre_apply_shell = IF f.post_in_stem THEN @ ELSE Append(@, f.name)]
  ELSE IF f.suffix # ".py" THEN st
  ELSE LoadModule([st EXCEPT !.loaded_files = Append(@, f.name)], f)

RECURSIVE LoadFiles(_, _)
LoadFiles(st, files) ==
  IF files = <<>> THEN st ELSE LoadFiles(LoadFile(st, Head(files)), Tail(files))

\* plugins.loader.load_plugins: the registry it leaves and its
\* PluginLoadResult; the failure messages are appended in the order of the
\* file names, which sorted(failures) keeps
load_plugins(reg, dir) ==
  [LoadFiles(EmptyLoad(reg), SortedFiles(dir)) EXCEPT !.loaded_files = SortedNames(@)]

\* the ids of the actions the plugin files hand to the callback
PluginIds(dir) == UNION {{f.adds[i].id : i \in 1..Len(f.adds)} : f \in dir}

\* the try block of build_plan for one action: check, then plan if supported;
\* outcome tells how the block ended
CheckAndPlan(a, c, m, pb) ==
  IF a.impl = "plugin"
    THEN CASE pb[a.id] = "raise" ->
                [supported |-> FALSE, recommended |-> FALSE, commands |-> <<>>,
                 check_notes |-> <<"RuntimeError: plugin check failed">>, ran |-> <<>>,
                 outcome |-> "check_raised"]
           [] pb[a.id] = "plan_raise" ->
                [supported |-> FALSE, recommended |-> FALSE, commands |-> <<>>,
                 check_notes |-> <<"RuntimeError: plugin plan failed">>, ran |-> <<>>,
                 outcome |-> "plan_raised"]
           [] pb[a.id] = "unsupported" ->
                [supported |-> FALSE, recommended |-> FALSE, commands |-> <<>>,
                 check_notes |-> <<"plugin unsupported">>, ran |-> <<>>,
                 outcome |-> "unsupported"]
           [] OTHER ->
                [supported |-> TRUE, recommended |-> pb[a.id] = "recommended",
                 commands |-> <<PluginCommand>>, check_notes |-> <<>>, ran |-> <<>>,
                 outcome |-> "planned"]
    ELSE LET chk == CASE a.impl = "cpu_governor" -> CpuGovernorAction_check(c, m)
                      [] a.impl = "nvidia_persistence" -> NvidiaPersistenceAction_check(c, m)
                      [] OTHER -> ProcessPriorityAction_check(c, m)
             pl == CASE a.impl = "cpu_governor" -> CpuGovernorAction_plan(c, m)
                     [] a.impl = "nvidia_persistence" -> NvidiaPersistenceAction_plan(c, m)
                     [] OTHER -> ProcessPriorityAction_plan(c, m)
         IN [supported |-> chk.supported,
             recommended |-> chk.supported /\ pl.recommended,
             commands |-> IF chk.supported THEN pl.commands ELSE <<>>,
             check_notes |-> chk.notes,
             \* plan calls check again
             ran |-> IF chk.supported THEN chk.ran \o chk.ran ELSE chk.ran,
             outcome |-> IF chk.supported THEN "planned" ELSE "unsupported"]

RECURSIVE Flatten(_)
Flatten(seqs) == IF seqs = <<>> THEN <<>> ELSE Head(seqs) \o Flatten(Tail(seqs))

\* mutant: the recommendation of the action's own plan is kept as it is
PlanItem_NoDowngrade(a, cp, expert_mode) ==
  [action |-> a, supported |-> cp.supported, planned |-> cp.recommended,
   recommended |-> cp.recommended, check_notes |-> cp.check_notes, plan_notes |-> <<>>,
   commands |-> cp.commands, ran |-> cp.ran, outcome |-> cp.outcome]

\* build_plan: what one pass of the loop over filtered_actions appends to
\* internal_data; cp is the outcome of its try block, planned is the
\* recommendation of the action's own plan before the downgrade
PlanItem(a, cp, expert_mode) ==
  [action |-> a, supported |-> cp.supported, planned |-> cp.recommended,
   recommended |-> cp.recommended /\ ~(a.risk = "high" /\ ~expert_mode),
   check_notes |-> cp.check_notes,
   plan_notes |-> IF a.risk = "high" /\ ~expert_mode
                    THEN <<"High risk action is disabled unless expert profile is used">>
                    ELSE <<>>,
   commands |-> cp.commands, ran |-> cp.ran, outcome |-> cp.outcome]

\* the actions before the first one whose check or plan raises
RECURSIVE UntilRaise(_, _)
UntilRaise(actions, pb) ==
  IF actions = <<>> THEN <<>>
  ELSE IF Head(actions).impl = "plugin" /\ pb[Head(actions).id] \in {"raise", "plan_raise"}
    THEN <<>>
    ELSE <<Head(actions)>> \o UntilRaise(Tail(actions), pb)

\* mutant: an exception of check or plan ends the loop
PlanItems_StopsAtRaise(actions, c, m, pb, expert_mode) ==
  [i \in 1..Len(UntilRaise(actions, pb)) |->
     PlanItem(actions[i], CheckAndPlan(actions[i], c, m, pb), expert_mode)]

\* build_plan: the loop over filtered_actions
PlanItems(actions, c, m, pb, expert_mode) ==
  [i \in 1..Len(actions) |->
     PlanItem(actions[i], CheckAndPlan(actions[i], c, m, pb), expert_mode)]

\* build_plan: the ActionDescriptor of one item
Descriptor(it) ==
  [action_id |-> it.action.id, category |-> it.action.category,
   recommended |-> it.recommended, risk |-> it.action.risk,
   requires_root |-> it.action.requires_root,
   supported |-> it.supported, commands |-> it.commands]

\* "|".join(parts)
RECURSIVE JoinBar(_)
JoinBar(parts) ==
  IF parts = <<>> THEN ""
  ELSE IF Len(parts) = 1 THEN parts[1]
  ELSE parts[1] \o "|" \o JoinBar(Tail(parts))

\* sorted(rec.action_id for rec in recommendations)
SortedActionIds(recommendations) ==
  [i \in 1..Len(recommendations) |-> SortedByActionId(recommendations)[i].action_id]

\* sha1(signature).hexdigest()[:12], kept as a term over the signature
sha1(signature) == "sha1(" \o signature \o ")"

\* two instants of datetime.now(timezone.utc): isoformat() and
\* strftime('%Y%m%d%H%M%S') of each
Clock ==
  <<[iso |-> "2026-01-01T00:00:00+00:00", stamp |-> "20260101000000"],
    [iso |-> "2026-01-01T00:00:07+00:00", stamp |-> "20260101000007"]>>

\* mutant: the plan is stamped whether timestamps are asked for or not
AccelerationPlan_create_AlwaysStamps(profile, recommendations, warnings, include_timestamp, now) ==
  [profile |-> profile, recommendations |-> recommendations, warnings |-> warnings,
   created_at |-> now.iso, plan_id |-> "launch-" \o now.stamp]

\* AccelerationPlan.create
AccelerationPlan_create(profile, recommendations, warnings, include_timestamp, now) ==
  [profile |-> profile, recommendations |-> recommendations, warnings |-> warnings,
   created_at |-> IF include_timestamp THEN now.iso ELSE "",
   plan_id |-> IF include_timestamp
                 THEN "launch-" \o now.stamp
                 ELSE "launch-" \o sha1(JoinBar(<<profile>> \o SortedActionIds(recommendations)))]

\* build_plan: AccelerationPlan.create and the returned tuple, with the
\* commands the checks ran
PlanResult(profile, loaded, data, c, include_timestamp, now) ==
  [plan |-> AccelerationPlan_create(profile, [i \in 1..Len(data) |-> Descriptor(data[i])],
                                    loaded.warnings, include_timestamp, now),
   internal_data |-> data, ctx |-> c,
   plugin_result |-> [actions_loaded |-> loaded.actions_loaded,
                      hooks |-> loaded.hooks, warnings |-> loaded.warnings,
                      loaded_files |-> loaded.loaded_files,
                      failures |-> loaded.failures],
   ran |-> Flatten([i \in 1..Len(data) |-> data[i].ran])]

\* build_plan once the plugins are loaded and the profile is normalized
PlanFrom(profile, only, exclude, expert_mode, include_timestamp, m, pb, loaded, c, now) ==
  PlanResult(profile, loaded,
             PlanItems(filter_actions(get_actions(loaded.registry), only, exclude, profile),
                       c, m, pb, expert_mode),
             c, include_timestamp, now)

\* plan_builder.build_plan; now is the instant AccelerationPlan.create reads
build_plan(profile, only, exclude, expert_mode, include_timestamp, m, dir, pb, now) ==
  PlanFrom(normalize_profile(profile), only, exclude, expert_mode, include_timestamp, m, pb,
           load_plugins(register_builtin_actions(clear_registry), dir),
           RuntimeCtx(build_context(m), normalize_profile(profile)), now)

\* str.strip() on the comma-separated parts of the model
strip(s) ==
  CASE s = " " -> ""
    [] s = " cpu" -> "cpu"
    [] OTHER -> s

\* models.parse_csv_set; parts is value.split(",")
parse_csv_set(parts) ==
  LET tokens == {lower(strip(parts[i])) : i \in {j \in 1..Len(parts) : strip(parts[j]) # ""}}
  IN IF tokens = {} THEN None ELSE Some(tokens)

\* mutant: tokens that name no category are dropped
_validate_filter_option_DropsUnknown(name, value, known_categories) ==
  IF value = None THEN Returned(None)
  ELSE IF parse_csv_set(Val(value)) = None
    THEN Raised("Malformed " \o name \o "; expected comma-separated categories")
  ELSE Returned(Some(Val(parse_csv_set(Val(value))) \cap known_categories))

\* cli._validate_filter_option
_validate_filter_option(name, value, known_categories) ==
  IF value = None THEN Returned(None)
  ELSE IF parse_csv_set(Val(value)) = None
    THEN Raised("Malformed " \o name \o "; expected comma-separated categories")
  ELSE IF Val(parse_csv_set(Val(value))) \ known_categories # {}
    THEN Raised("Unknown categories in " \o name)
  ELSE Returned(parse_csv_set(Val(value)))

_parse_mode_flags(dry_run, apply) ==
  IF dry_run /\ apply THEN Raised("Cannot pass both --dry-run and --apply")
  ELSE IF ~dry_run /\ ~apply THEN Returned(TRUE)
  ELSE Returned(dry_run)

_auto_selection(recommendations, expert_mode) ==
  {recommendations[i].action_id : i \in
     {j \in 1..Len(recommendations) :
        /\ recommendations[j].recommended /\ recommendations[j].supported
        /\ ~(recommendations[j].risk = "high" /\ ~expert_mode)}}

\* ui.interactive.select_actions_interactively; raw is the operator's answer
select_actions_interactively(recommendations, raw) ==
  CASE raw = "all" -> {recommendations[i].action_id : i \in 1..Len(recommendations)}
    [] raw = "none" -> {}
    [] OTHER -> IF Len(recommendations) >= 1 THEN {recommendations[1].action_id} ELSE {}

InteractiveAnswers == {"all", "none", "1"}

\* cli._build_dry_run_results
_build_dry_run_results(recommendations) ==
  LET recs == SortedByActionId(recommendations)
  IN [i \in 1..Len(recs) |->
        AccelerationActionResult(
          [action_id |-> recs[i].action_id, supported |-> recs[i].supported,
           applied |-> FALSE, skipped_reason |-> Some("Dry run - not applied"),
           requires_root |-> recs[i].requires_root, risk |-> recs[i].risk,
           commands |-> recs[i].commands, errors |-> <<>>]).value]

\* sorted(selected_action_ids)
SortedIds(ids) == SelectSeq(IdOrder, LAMBDA id : id \in ids)

\* mutant: the results are reported in the order they were given
build_report_Unsorted(plan, action_results, c, selected_action_ids, dry_run, plugin_result, warnings) ==
  [mode |-> IF dry_run THEN "dry-run" ELSE "apply",
   plan |-> plan,
   context |-> c,
   selected_action_ids |-> SortedIds(selected_action_ids),
   summary |->
     [applied |-> Len(SelectSeq(action_results, LAMBDA r : r.applied)),
      skipped |-> Len(SelectSeq(action_results,
                                LAMBDA r : ~r.applied /\ r.skipped_reason # None)),
      unsupported |-> Len(SelectSeq(action_results, LAMBDA r : ~r.supported)),
      total |-> Len(action_results)],
   results |-> action_results,
   plugin_summary |->
     [actions_loaded |-> plugin_result.actions_loaded,
      loaded_files |-> plugin_result.loaded_files,
      failures |-> plugin_result.failures,
      pre_apply_shell |-> plugin_result.hooks.pre_apply_shell,
      post_apply_shell |-> plugin_result.hooks.post_apply_shell,
      pre_apply_py_count |-> Len(plugin_result.hooks.pre_apply_py),
      post_apply_py_count |-> Len(plugin_result.hooks.post_apply_py)],
   warnings |-> plan.warnings \o warnings]

\* reporting.build_report
build_report(plan, action_results, c, selected_action_ids, dry_run, plugin_result, warnings) ==
  LET sorted_results == SortedByActionId(action_results)
  IN [mode |-> IF dry_run THEN "dry-run" ELSE "apply",
      plan |-> plan,
      context |-> c,
      selected_action_ids |-> SortedIds(selected_action_ids),
      summary |->
        [applied |-> Len(SelectSeq(sorted_results, LAMBDA r : r.applied)),
         skipped |-> Len(SelectSeq(sorted_results,
                                   LAMBDA r : ~r.applied /\ r.skipped_reason # None)),
         unsupported |-> Len(SelectSeq(sorted_results, LAMBDA r : ~r.supported)),
         total |-> Len(action_results)],
      results |-> sorted_results,
      plugin_summary |->
        [actions_loaded |-> plugin_result.actions_loaded,
         loaded_files |-> plugin_result.loaded_files,
         failures |-> plugin_result.failures,
         pre_apply_shell |-> plugin_result.hooks.pre_apply_shell,
         post_apply_shell |-> plugin_result.hooks.post_apply_shell,
         pre_apply_py_count |-> Len(plugin_result.hooks.pre_apply_py),
         post_apply_py_count |-> Len(plugin_result.hooks.post_apply_py)],
      warnings |-> plan.warnings \o warnings]

\* cli._write_report_if_enabled with reporting.write_state_report: the two
\* files after the call; out tells whether --out was given
_write_report_if_enabled(rep, out, no_state_write, latest, outfile) ==
  IF no_state_write
    THEN [latest |-> IF out THEN Some(rep) ELSE latest,
          out |-> IF out THEN Some(rep) ELSE outfile]
    ELSE [latest |-> Some(rep), out |-> IF out THEN Some(rep) ELSE outfile]

\* how a shell hook may end: subprocess.run returns 0, returns non-zero,
\* raises TimeoutExpired after 20 s, or raises because sh cannot be spawned
ShellOutcomes == {"ok", "nonzero", "timeout", "spawn_error"}

\* how a native callable may end
PyOutcomes == {"ok", "raise"}

\* the text after "Hook <name> failed: "
ShellFailureText(outcome) ==
  CASE outcome = "nonzero" -> "stderr of the hook"
    [] outcome = "timeout" -> "TimeoutExpired: timed out after 20 seconds"
    [] OTHER -> "FileNotFoundError: sh"

\* plugins.loader.run_shell_hooks: one warning for each hook that failed
ShellHookWarnings(names, ho) ==
  LET failed == SelectSeq(names, LAMBDA n : ho[n] # "ok")
  IN [i \in 1..Len(failed) |->
        "Hook " \o failed[i] \o " failed: " \o ShellFailureText(ho[failed[i]])]

\* the loop over the native callbacks; stage is "pre" or "post"
PyHookWarnings(names, ho, stage) ==
  LET failed == SelectSeq(names, LAMBDA n : ho[n] # "ok")
  IN [i \in 1..Len(failed) |->
        "Python " \o stage \o " hook failed: RuntimeError: " \o failed[i]]

ShellHookCommands(names) == [i \in 1..Len(names) |-> "sh " \o names[i]]

\* the hooks in the order they are called
HookCalls(shell, py, ho, stage) ==
  [i \in 1..Len(shell) |->
     [hook |-> shell[i], kind |-> "shell", stage |-> stage, outcome |-> ho[shell[i]]]]
  \o [i \in 1..Len(py) |->
        [hook |-> py[i], kind |-> "py", stage |-> stage, outcome |-> ho[py[i]]]]

\* the hooks up to the first one that fails
UntilFailure(names, ho) ==
  IF \A i \in 1..Len(names) : ho[names[i]] = "ok" THEN names
  ELSE SubSeq(names, 1, CHOOSE i \in 1..Len(names) :
                          /\ ho[names[i]] # "ok"
                          /\ \A j \in 1..(i - 1) : ho[names[j]] = "ok")

\* mutant: the first failing hook ends the stage
RunHooks_StopsAtFailure(shell, py, ho, stage) ==
  LET ran == UntilFailure(shell, ho)
      pyran == IF ran = shell /\ (shell = <<>> \/ ho[shell[Len(shell)]] = "ok")
                 THEN UntilFailure(py, ho) ELSE <<>>
  IN [warnings |-> ShellHookWarnings(ran, ho) \o PyHookWarnings(pyran, ho, stage),
      commands |-> ShellHookCommands(ran),
      calls |-> HookCalls(ran, pyran, ho, stage)]

\* one stage of hooks in _run_plan_mode: run_shell_hooks, then the loop over
\* the native callables, each in its own try/except
RunHooks(shell, py, ho, stage) ==
  [warnings |-> ShellHookWarnings(shell, ho) \o PyHookWarnings(py, ho, stage),
   commands |-> ShellHookCommands(shell),
   calls |-> HookCalls(shell, py, ho, stage)]

\* a plugin action's apply
PluginApply(a, ab) ==
  CASE ab = "applied" ->
         AccelerationActionResult(Result(a, TRUE, TRUE, None, <<PluginCommand>>, <<>>))
    [] ab = "declined" ->
         AccelerationActionResult(Result(a, TRUE, FALSE, Some("Plugin declined"),
                                         <<PluginCommand>>, <<>>))
    [] ab = "no_reason" ->
         AccelerationActionResult(Result(a, TRUE, FALSE, None, <<PluginCommand>>, <<>>))
    [] ab = "empty_reason" ->
         AccelerationActionResult(Result(a, TRUE, FALSE, Some(""), <<PluginCommand>>, <<>>))
    [] OTHER -> Raised("RuntimeError: plugin apply failed")

\* action.apply(ctx) for any action
apply(a, c, m, oc, ab) ==
  CASE a.impl = "cpu_governor" -> CpuGovernorAction_apply(c, m, oc)
    [] a.impl = "nvidia_persistence" -> NvidiaPersistenceAction_apply(c, m, oc)
    [] a.impl = "process_priority" -> ProcessPriorityAction_apply(c, m)
    [] OTHER -> [res |-> PluginApply(a, ab), machine |-> m,
                 ran |-> IF ab = "applied" THEN <<PluginCommand>> ELSE <<>>]

\* mutant: a selected action is applied whatever its check reported
ApplyIteration_IgnoresSupport(item, selected, c, m, oc, ab) ==
  LET a == item.action
  IN IF a.id \notin selected
       THEN [result |-> AccelerationActionResult(
                          Result(a, item.supported, FALSE, Some("Not selected"),
                                 item.commands, <<>>)).value,
             machine |-> m, ran |-> <<>>, attempt |-> "not_selected"]
     ELSE LET got == apply(a, c, m, oc, ab)
          IN [result |-> IF got.res.raised
                           THEN AccelerationActionResult(
                                  Result(a, TRUE, FALSE,
                                         Some("Action apply raised an exception"),
                                         item.commands, <<got.res.exc>>)).value
                           ELSE got.res.value,
              machine |-> got.machine, ran |-> got.ran,
              attempt |-> IF a.impl = "plugin" THEN ab ELSE "builtin"]

\* one iteration of the apply loop of _run_plan_mode: the result it appends
ApplyIteration(item, selected, c, m, oc, ab) ==
  LET a == item.action
  IN IF a.id \notin selected
       THEN [result |-> AccelerationActionResult(
                          Result(a, item.supported, FALSE, Some("Not selected"),
                                 item.commands, <<>>)).value,
             machine |-> m, ran |-> <<>>, attempt |-> "not_selected"]
     ELSE IF ~item.supported
       THEN [result |-> AccelerationActionResult(
                          Result(a, FALSE, FALSE,
                                 Some("Unsupported on this environment"),
                                 item.commands, <<>>)).value,
             machine |-> m, ran |-> <<>>, attempt |-> "unsupported"]
     ELSE LET got == apply(a, c, m, oc, ab)
          IN [result |-> IF got.res.raised
                           THEN AccelerationActionResult(
                                  Result(a, TRUE, FALSE,
                                         Some("Action apply raised an exception"),
                                         item.commands, <<got.res.exc>>)).value
                           ELSE got.res.value,
              machine |-> got.machine, ran |-> got.ran,
              attempt |-> IF a.impl = "plugin" THEN ab ELSE "builtin"]

\* the iteration reaches subprocess.run of a built-in action
RunsCommand(item, selected, c, m) ==
  /\ item.action.id \in selected /\ item.supported
  /\ \/ /\ item.action.impl = "cpu_governor"
        /\ CpuGovernorAction_check(c, m).supported /\ c.user_is_root
     \/ /\ item.action.impl = "nvidia_persistence"
        /\ NvidiaPersistenceAction_check(c, m).supported /\ c.user_is_root

\* the iteration calls a plugin action's apply
CallsPlugin(item, selected) ==
  item.action.id \in selected /\ item.supported /\ item.action.impl = "plugin"


(***************************************************************************)
(* Planner mode: launch_command without a script, step by step             *)
(***************************************************************************)
\* the hosts of the model; off Linux the built-in checks read nothing else
Machines ==
  {m \in [os_name : {"linux", "windows", "darwin", "freebsd"},
          user_is_root : BOOLEAN, has_nvidia_smi : BOOLEAN, cpupower : BOOLEAN,
          governor : {None, Some("powersave"), Some("performance")},
          nvidia_query : {"enabled", "disabled", "unparsed", "error"}] :
     /\ m.os_name # "linux" =>
          (~m.has_nvidia_smi /\ m.cpupower /\ m.governor = Some("powersave"))
     /\ ~m.has_nvidia_smi => m.nvidia_query = "disabled"
     /\ ~m.cpupower => m.governor = Some("powersave")}

PluginDirs == {d \in SUBSET Range(PluginFileOrder) : Cardinality(d) <= MaxPluginFiles}

\* the profiles of the command line: typer accepts the four of Profile
Profiles == DOMAIN PROFILE_ORDER \cup {"turbo"}

\* what --only / --exclude may hold, as value.split(",") returns it: not
\* given, two categories, one category, a category no action has, no token
FilterValues ==
  {None, Some(<<"GPU", " cpu">>), Some(<<"process">>), Some(<<"bogus">>), Some(<<"", " ">>)}

LaunchOptions ==
  [dry_run : BOOLEAN, apply : BOOLEAN, interactive : BOOLEAN,
   profile : Profiles, only : FilterValues, exclude : FilterValues,
   out : BOOLEAN, no_state_write : BOOLEAN]

\* how far a launch is from the plain one: a Linux host with cpupower, a
\* powersave governor and a GPU with persistence off, no plugin file, and
\* only --dry-run / --apply on the command line
OptionVariation(o) ==
  (IF o.interactive THEN 1 ELSE 0)
    + (IF o.profile # "balanced" THEN 1 ELSE 0)
    + (IF o.only # None THEN 1 ELSE 0)
    + (IF o.exclude # None THEN 1 ELSE 0)
    + (IF o.out THEN 1 ELSE 0)
    + (IF o.no_state_write THEN 1 ELSE 0)

Variation(m, dir, o) ==
  (IF m.os_name = "linux" /\ (~m.cpupower \/ m.governor # Some("powersave")) THEN 1 ELSE 0)
    + (IF m.os_name = "linux" /\ (~m.has_nvidia_smi \/ m.nvidia_query # "disabled")
         THEN 1 ELSE 0)
    + Cardinality(dir)
    + OptionVariation(o)

\* the command lines within the bound on any host, enumerated once
BoundedOptions == {o : o \in {x \in LaunchOptions : OptionVariation(x) <= MaxVariation}}

PlainOptions == [dry_run |-> FALSE, apply |-> FALSE, interactive |-> FALSE,
                 profile |-> "balanced", only |-> None, exclude |-> None,
                 out |-> FALSE, no_state_write |-> FALSE]

\* the toggle is not part of the behaviour
ToggleParked ==
  /\ ctx = detect_context("linux", FALSE, FALSE)
  /\ host = CHOOSE h \in HostsOf(ctx) : Missing(ctx, h) = {}
  /\ file = None
  /\ rendered = None
  /\ log = <<>>
  /\ exit_code = None
  /\ nops = 0
  /\ faults = 0
  /\ last = None
  /\ session = NoSession

\* neither the toggle nor script mode is part of the behaviour
SysParked == ToggleParked /\ NoScript

PlanInit ==
  /\ SysParked
  /\ machine \in Machines
  /\ plugin_dir \in PluginDirs
  /\ Variation(machine, plugin_dir, PlainOptions) <= MaxVariation
  /\ NoLaunch
  /\ NoLibraryCall

\* options and plugin behaviour a launch may start with
Startable(o) == Variation(machine, plugin_dir, o) <= MaxVariation
PlanBehaviours == [PluginIds(plugin_dir) -> PluginPlanBehaviours]

\* _run_plan_mode: the first build_plan, which probes the categories for
\* --only / --exclude; --no-timestamp is not given
Probe(o, pb) ==
  build_plan(o.profile, None, None, o.profile = "expert", TRUE, machine, plugin_dir, pb,
             Clock[1])

\* {rec.category.lower() for rec in probe_plan.recommendations}
known_categories(probe) ==
  {lower(probe.plan.recommendations[i].category) : i \in 1..Len(probe.plan.recommendations)}

only_set(o, probe) == _validate_filter_option("--only", o.only, known_categories(probe))
exclude_set(o, probe) == _validate_filter_option("--exclude", o.exclude, known_categories(probe))

\* one of the two _validate_filter_option calls raises UsageError
FilterError(o, probe) == only_set(o, probe).raised \/ exclude_set(o, probe).raised

\* _run_plan_mode: the second build_plan, with the validated filters
Built(o, pb, probe) ==
  build_plan(o.profile, only_set(o, probe).value, exclude_set(o, probe).value,
             o.profile = "expert", TRUE, machine, plugin_dir, pb, Clock[1])

\* typer rejects a --profile outside Profile before launch_command runs:
\* exit code 2
LaunchBadProfile(o) ==
  /\ pc = "idle"
  /\ o.profile \notin DOMAIN PROFILE_ORDER
  /\ opts' = Some(o)
  /\ launch_exit' = Some(2)
  /\ pc' = "done"
  /\ UNCHANGED <<machine, plugin_dir, built, selected_ids, results, attempts,
                 hook_warnings, hooks_run, report, latest_json, out_json, launch_log>>
  /\ UNCHANGED <<sysvars, libvars, scriptvars>>

\* _run_plan_mode: --only or --exclude is malformed or names an unknown
\* category: UsageError after the probing build_plan, exit code 2
LaunchFilterError(o, probe) ==
  /\ pc = "idle"
  /\ o.profile \in DOMAIN PROFILE_ORDER
  /\ ~_parse_mode_flags(o.dry_run, o.apply).raised
  /\ FilterError(o, probe)
  /\ launch_log' = probe.ran
  /\ opts' = Some(o)
  /\ launch_exit' = Some(2)
  /\ pc' = "done"
  /\ UNCHANGED <<machine, plugin_dir, built, selected_ids, results, attempts,
                 hook_warnings, hooks_run, report, latest_json, out_json>>
  /\ UNCHANGED <<sysvars, libvars, scriptvars>>

\* launch_command: --dry-run with --apply is a usage error, exit code 2
LaunchUsageError(o) ==
  /\ pc = "idle"
  /\ o.profile \in DOMAIN PROFILE_ORDER
  /\ _parse_mode_flags(o.dry_run, o.apply).raised
  /\ opts' = Some(o)
  /\ launch_exit' = Some(2)
  /\ pc' = "done"
  /\ UNCHANGED <<machine, plugin_dir, built, selected_ids, results, attempts,
                 hook_warnings, hooks_run, report, latest_json, out_json, launch_log>>
  /\ UNCHANGED <<sysvars, libvars, scriptvars>>

\* _write_report_if_enabled(report, out, no_state_write) and what it leaves
WriteReport(rep, o) ==
  /\ report' = Some(rep)
  /\ latest_json' = _write_report_if_enabled(rep, o.out, o.no_state_write,
                                             latest_json, out_json).latest
  /\ out_json' = _write_report_if_enabled(rep, o.out, o.no_state_write,
                                          latest_json, out_json).out

\* _run_plan_mode on an OS that is not Linux, Windows or macOS; bp is what
\* build_plan returned
LaunchUnsupportedOs(o, probe, bp) ==
  /\ pc = "idle"
  /\ o.profile \in DOMAIN PROFILE_ORDER
  /\ ~_parse_mode_flags(o.dry_run, o.apply).raised
  /\ ~FilterError(o, probe)
  /\ ~_is_supported_os(bp.ctx)
  /\ WriteReport(build_report(bp.plan, <<>>, bp.ctx, {},
                              _parse_mode_flags(o.dry_run, o.apply).value,
                              bp.plugin_result,
                              <<"Skipped: not supported on this OS.">>), o)
  /\ built' = Some(bp)
  /\ launch_log' = probe.ran \o bp.ran
  /\ opts' = Some(o)
  /\ launch_exit' = Some(0)
  /\ pc' = "done"
  /\ UNCHANGED <<machine, plugin_dir, selected_ids, results, attempts, hook_warnings, hooks_run>>
  /\ UNCHANGED <<sysvars, libvars, scriptvars>>

\* the dry-run branch of _run_plan_mode once the results are built
DryRunReport(o, bp, selected, dry) ==
  /\ selected_ids' = selected
  /\ results' = dry
  /\ WriteReport(build_report(bp.plan, dry, bp.ctx, selected, TRUE,
                              bp.plugin_result, <<>>), o)

\* _run_plan_mode in dry-run mode (the default): plan, report, no apply
LaunchDryRun(o, probe, bp) ==
  /\ pc = "idle"
  /\ o.profile \in DOMAIN PROFILE_ORDER
  /\ ~_parse_mode_flags(o.dry_run, o.apply).raised
  /\ _parse_mode_flags(o.dry_run, o.apply).value
  /\ ~FilterError(o, probe)
  /\ _is_supported_os(bp.ctx)
  /\ DryRunReport(o, bp, _auto_selection(bp.plan.recommendations, o.profile = "expert"),
                  _build_dry_run_results(bp.plan.recommendations))
  /\ built' = Some(bp)
  /\ launch_log' = probe.ran \o bp.ran
  /\ opts' = Some(o)
  /\ launch_exit' = Some(0)
  /\ pc' = "done"
  /\ UNCHANGED <<machine, plugin_dir, attempts, hook_warnings, hooks_run>>
  /\ UNCHANGED <<sysvars, libvars, scriptvars>>

\* _run_plan_mode --apply --interactive, the operator declines the prompt
LaunchApplyCancelled(o, probe, bp, raw) ==
  /\ pc = "idle"
  /\ o.profile \in DOMAIN PROFILE_ORDER
  /\ ~_parse_mode_flags(o.dry_run, o.apply).raised
  /\ ~_parse_mode_flags(o.dry_run, o.apply).value
  /\ o.interactive
  /\ ~FilterError(o, probe)
  /\ _is_supported_os(bp.ctx)
  /\ built' = Some(bp)
  /\ selected_ids' = select_actions_interactively(bp.plan.recommendations, raw)
  /\ launch_log' = probe.ran \o bp.ran
  /\ opts' = Some(o)
  /\ launch_exit' = Some(0)
  /\ pc' = "done"
  /\ UNCHANGED <<machine, plugin_dir, results, attempts, hook_warnings, hooks_run, report,
                 latest_json, out_json>>
  /\ UNCHANGED <<sysvars, libvars, scriptvars>>

\* _run_plan_mode --apply up to the selection; the hooks and the loop follow
LaunchApplyBegin(o, probe, bp, raw) ==
  /\ pc = "idle"
  /\ o.profile \in DOMAIN PROFILE_ORDER
  /\ ~_parse_mode_flags(o.dry_run, o.apply).raised
  /\ ~_parse_mode_flags(o.dry_run, o.apply).value
  /\ ~o.interactive => raw = "all"
  /\ ~FilterError(o, probe)
  /\ _is_supported_os(bp.ctx)
  /\ built' = Some(bp)
  /\ selected_ids' =
       IF o.interactive
         THEN select_actions_interactively(bp.plan.recommendations, raw)
         ELSE _auto_selection(bp.plan.recommendations, o.profile = "expert")
  /\ launch_log' = probe.ran \o bp.ran
  /\ opts' = Some(o)
  /\ pc' = "pre_hooks"
  /\ UNCHANGED <<machine, plugin_dir, results, attempts, hook_warnings, hooks_run, report,
                 latest_json, out_json, launch_exit>>
  /\ UNCHANGED <<sysvars, libvars, scriptvars>>

\* an outcome for every hook of a stage
HookOutcomes(shell, py) ==
  {ho \in [Range(shell) \cup Range(py) -> ShellOutcomes \cup PyOutcomes] :
     /\ \A n \in Range(shell) : ho[n] \in ShellOutcomes
     /\ \A n \in Range(py) : ho[n] \in PyOutcomes}

PreHooks == Val(built).plugin_result.hooks.pre_apply_shell
PrePyHooks == Val(built).plugin_result.hooks.pre_apply_py
PostHooks == Val(built).plugin_result.hooks.post_apply_shell
PostPyHooks == Val(built).plugin_result.hooks.post_apply_py

\* _run_plan_mode: the pre-apply shell hooks, then the native pre_apply hooks
RunPreHooks(ho) ==
  /\ pc = "pre_hooks"
  /\ hook_warnings' = hook_warnings \o RunHooks(PreHooks, PrePyHooks, ho, "pre").warnings
  /\ hooks_run' = hooks_run \o RunHooks(PreHooks, PrePyHooks, ho, "pre").calls
  /\ launch_log' = launch_log \o RunHooks(PreHooks, PrePyHooks, ho, "pre").commands
  /\ pc' = IF Len(Val(built).internal_data) = 0 THEN "post_hooks" ELSE "apply"
  /\ UNCHANGED <<machine, plugin_dir, opts, built, selected_ids, results, attempts,
                 report, latest_json, out_json, launch_exit>>
  /\ UNCHANGED <<sysvars, libvars, scriptvars>>

\* _run_plan_mode: one iteration of 'for item in internal_data'
ApplyAction(oc, ab) ==
  /\ pc = "apply"
  /\ Len(results) < Len(Val(built).internal_data)
  /\ LET item == Val(built).internal_data[Len(results) + 1]
         c == Val(built).ctx
         it == ApplyIteration(item, selected_ids, c, machine, oc, ab)
     IN /\ oc # "ok" => RunsCommand(item, selected_ids, c, machine)
        /\ ab # "applied" => CallsPlugin(item, selected_ids)
        /\ results' = Append(results, it.result)
        /\ attempts' = Append(attempts, it.attempt)
        /\ machine' = it.machine
        /\ launch_log' = launch_log \o it.ran
        /\ pc' = IF Len(results) + 1 = Len(Val(built).internal_data)
                   THEN "post_hooks" ELSE "apply"
  /\ UNCHANGED <<plugin_dir, opts, built, selected_ids, hook_warnings, hooks_run, report,
                 latest_json, out_json, launch_exit>>
  /\ UNCHANGED <<sysvars, libvars, scriptvars>>

\* _run_plan_mode: the post-apply shell hooks, then the native post_apply hooks
RunPostHooks(ho) ==
  /\ pc = "post_hooks"
  /\ hook_warnings' = hook_warnings \o RunHooks(PostHooks, PostPyHooks, ho, "post").warnings
  /\ hooks_run' = hooks_run \o RunHooks(PostHooks, PostPyHooks, ho, "post").calls
  /\ launch_log' = launch_log \o RunHooks(PostHooks, PostPyHooks, ho, "post").commands
  /\ pc' = "report"
  /\ UNCHANGED <<machine, plugin_dir, opts, built, selected_ids, results, attempts,
                 report, latest_json, out_json, launch_exit>>
  /\ UNCHANGED <<sysvars, libvars, scriptvars>>

\* _run_plan_mode: build_report, _write_report_if_enabled, return 0
FinishReport ==
  /\ pc = "report"
  /\ WriteReport(build_report(Val(built).plan, results, Val(built).ctx, selected_ids,
                              FALSE, Val(built).plugin_result, hook_warnings),
                 Val(opts))
  /\ launch_exit' = Some(0)
  /\ pc' = "done"
  /\ UNCHANGED <<machine, plugin_dir, opts, built, selected_ids, results, attempts,
                 hook_warnings, hooks_run, launch_log>>
  /\ UNCHANGED <<sysvars, libvars, scriptvars>>

\* KeyboardInterrupt while _run_plan_mode applies: no handler in
\* _run_plan_mode catches it ('except Exception' does not), so it reaches
\* launch_command's 'except KeyboardInterrupt', which exits with code 130
Interrupt ==
  /\ pc \in {"pre_hooks", "apply", "post_hooks", "report"}
  /\ launch_exit' = Some(130)
  /\ pc' = "done"
  /\ UNCHANGED <<machine, plugin_dir, opts, built, selected_ids, results, attempts,
                 hook_warnings, hooks_run, report, latest_json, out_json, launch_log>>
  /\ UNCHANGED <<sysvars, libvars, scriptvars>>

PlanNext ==
  \/ pc = "idle" /\ \E o \in BoundedOptions : Startable(o) /\ LaunchBadProfile(o)
  \/ pc = "idle" /\ \E o \in BoundedOptions : Startable(o) /\ LaunchUsageError(o)
  \/ pc = "idle" /\ \E o \in BoundedOptions, pb \in PlanBehaviours :
       Startable(o) /\ LaunchFilterError(o, Probe(o, pb))
  \/ pc = "idle" /\ \E o \in BoundedOptions, pb \in PlanBehaviours :
       Startable(o) /\ LET probe == Probe(o, pb)
                       IN LaunchUnsupportedOs(o, probe, Built(o, pb, probe))
  \/ pc = "idle" /\ \E o \in BoundedOptions, pb \in PlanBehaviours :
       Startable(o) /\ LET probe == Probe(o, pb)
                       IN LaunchDryRun(o, probe, Built(o, pb, probe))
  \/ pc = "idle" /\ \E o \in BoundedOptions, pb \in PlanBehaviours, raw \in InteractiveAnswers :
       Startable(o) /\ LET probe == Probe(o, pb)
                       IN LaunchApplyCancelled(o, probe, Built(o, pb, probe), raw)
  \/ pc = "idle" /\ \E o \in BoundedOptions, pb \in PlanBehaviours, raw \in InteractiveAnswers :
       Startable(o) /\ LET probe == Probe(o, pb)
                       IN LaunchApplyBegin(o, probe, Built(o, pb, probe), raw)
  \/ pc = "pre_hooks" /\ \E ho \in HookOutcomes(PreHooks, PrePyHooks) : RunPreHooks(ho)
  \/ \E oc \in CmdOutcomes, ab \in PluginApplyBehaviours : ApplyAction(oc, ab)
  \/ pc = "post_hooks" /\ \E ho \in HookOutcomes(PostHooks, PostPyHooks) : RunPostHooks(ho)
  \/ FinishReport
  \/ Interrupt

PlanSpec == PlanInit /\ [][PlanNext]_vars


(***************************************************************************)
(* Vocabulary of the claims about planner mode                             *)
(***************************************************************************)
\* the launch ended through launch_command's 'except KeyboardInterrupt'
Interrupted == pc = "done" /\ launch_exit = Some(130)

\* the apply loop had finished an action and not yet started the next one
InterruptedBetweenActions ==
  1 <= Len(results) /\ Len(results) < Len(Val(built).internal_data)

\* the report reached every file the options ask for
Persisted(rep) ==
  /\ ~Val(opts).no_state_write => latest_json = Some(rep)
  /\ Val(opts).out => out_json = Some(rep)

ResultsOf(rep, id) == {j \in 1..Len(rep.results) : rep.results[j].action_id = id}

HasReason(r) == r.skipped_reason # None /\ Val(r.skipped_reason) # ""

\* the skip reasons the apply loop and the actions give for other causes
OtherReasons ==
  {"Not selected", "Unsupported on this environment",
   "Action apply raised an exception", "Root privileges required",
   "Command execution failed", "Dry run - not applied", "Plugin declined"}

(***************************************************************************)
(* C9: when the apply pipeline of planner mode is interrupted between      *)
(* actions, the final report is still built and persisted, it holds a      *)
(* result for every action of the plan, and every action not yet reached   *)
(* carries a distinct 'interrupted' skip reason.                           *)
(***************************************************************************)
C9_InterruptedLaunchStillReports ==
  (Interrupted /\ InterruptedBetweenActions) =>
    /\ report # None
    /\ Persisted(Val(report))
    /\ \A i \in 1..Len(Val(built).internal_data) :
         LET hits == ResultsOf(Val(report), Val(built).internal_data[i].action.id)
         IN /\ Cardinality(hits) = 1
            /\ i > Len(results) =>
                 \A j \in hits :
                   /\ ~Val(report).results[j].applied
                   /\ HasReason(Val(report).results[j])
                   /\ Val(Val(report).results[j].skipped_reason) \notin OtherReasons

(***************************************************************************)
(* C10: every AccelerationActionResult that exists has a non-empty         *)
(* skipped_reason when applied is false; building one with applied=false   *)
(* and an empty or absent reason is rejected with an error, so the result  *)
(* of every path (dry run, not selected, unsupported, privilege denied,    *)
(* command failure, apply exception) carries a reason.                     *)
(***************************************************************************)
C10_EveryResultCarriesReason ==
  /\ \A i \in 1..Len(results) : ~results[i].applied => HasReason(results[i])
  /\ report # None =>
       \A j \in 1..Len(Val(report).results) :
         ~Val(report).results[j].applied => HasReason(Val(report).results[j])
  /\ \A i \in 1..Len(attempts) :
       attempts[i] \in {"no_reason", "empty_reason"} =>
         /\ results[i].skipped_reason = Some("Action apply raised an exception")
         /\ results[i].errors = <<ValueErrorText>>

\* a finished apply run in which a plugin tried to build a skipped result
\* without a reason, next to results of the built-in actions
C10_Witness ==
  /\ pc = "done" /\ report # None /\ Val(report).mode = "apply"
  /\ \E i \in 1..Len(attempts) : attempts[i] = "no_reason"
  /\ \E i \in 1..Len(attempts) : attempts[i] = "builtin"
  /\ \E j \in 1..Len(Val(report).results) :
       Val(report).results[j].errors = <<ValueErrorText>>


(***************************************************************************)
(* C14: a high-risk action is never auto-recommended outside the expert    *)
(* profile: in every plan built for another profile each descriptor with   *)
(* risk 'high' has recommended = false whatever the action's own plan      *)
(* returned, and automatic selection never selects such an action.         *)
(***************************************************************************)
C14_HighRiskNeedsExpert ==
  (built # None /\ Val(opts).profile # "expert") =>
    \A i \in 1..Len(Val(built).plan.recommendations) :
      Val(built).plan.recommendations[i].risk = "high" =>
        /\ ~Val(built).plan.recommendations[i].recommended
        /\ ~Val(opts).interactive =>
             Val(built).plan.recommendations[i].action_id \notin selected_ids

\* an apply run in the balanced profile whose plan holds a supported
\* high-risk action that its own plan recommended
C14_Witness ==
  /\ pc = "done" /\ report # None /\ Val(report).mode = "apply"
  /\ Val(opts).profile = "balanced" /\ ~Val(opts).interactive
  /\ \E i \in 1..Len(Val(built).internal_data) :
       /\ Val(built).internal_data[i].action.risk = "high"
       /\ Val(built).internal_data[i].supported
       /\ Val(built).internal_data[i].planned
       /\ ~Val(built).plan.recommendations[i].recommended

\* the try block of the i-th action ended in the except clause
RaisedInPlanning(i) ==
  Val(built).internal_data[i].outcome \in {"check_raised", "plan_raised"}

\* the category set a validated --only / --exclude value stands for
CategoriesOf(v) == IF v = None THEN None ELSE parse_csv_set(Val(v))

\* the actions build_plan has to walk for this launch
ActionsToPlan ==
  filter_actions(get_actions(load_plugins(register_builtin_actions(clear_registry),
                                          plugin_dir).registry),
                 CategoriesOf(Val(opts).only), CategoriesOf(Val(opts).exclude),
                 normalize_profile(Val(opts).profile))

(***************************************************************************)
(* C15: in build_plan a check or plan that raises is caught for that       *)
(* action only: its descriptor has supported = false and recommended =     *)
(* false and the exception text is its note, every other filtered action   *)
(* is still checked and planned, and the plan holds one descriptor for     *)
(* every filtered action.                                                  *)
(***************************************************************************)
C15_RaisingActionIsContained ==
  built # None =>
    LET data == Val(built).internal_data
        recs == Val(built).plan.recommendations
        todo == ActionsToPlan
    IN /\ Len(recs) = Len(todo) /\ Len(data) = Len(todo)
       /\ \A i \in 1..Len(recs) :
            /\ recs[i].action_id = todo[i].id
            /\ data[i].action = todo[i]
            /\ RaisedInPlanning(i) =>
                 /\ ~recs[i].supported /\ ~recs[i].recommended
                 /\ data[i].check_notes \in {<<"RuntimeError: plugin check failed">>,
                                              <<"RuntimeError: plugin plan failed">>}
            /\ (data[i].action.impl = "cpu_governor" /\ attempts = <<>>) =>
                 /\ recs[i].supported = CpuGovernorAction_check(Val(built).ctx, machine).supported
                 /\ data[i].outcome = "planned" =>
                      recs[i].commands = CpuGovernorAction_plan(Val(built).ctx, machine).commands
            /\ data[i].action.impl = "process_priority" =>
                 /\ recs[i].supported /\ data[i].outcome = "planned"
                 /\ recs[i].commands = ProcessPriorityAction_plan(Val(built).ctx, machine).commands

\* a plan in which a plugin's check raised and a built-in action after it
\* was checked, planned and recommended
C15_Witness ==
  /\ built # None
  /\ \E i, j \in 1..Len(Val(built).internal_data) :
       /\ i < j
       /\ Val(built).internal_data[i].outcome = "check_raised"
       /\ Val(built).internal_data[j].action.impl = "process_priority"
       /\ Val(built).plan.recommendations[j].recommended

(***************************************************************************)
(* Library calls: filter_actions                                           *)
(***************************************************************************)
\* length of the action list handed to filter_actions
MaxActions == 3

\* neither the toggle nor a launch is part of a library call
PlanParked == machine = None /\ plugin_dir = {} /\ NoLaunch

\* actions as tests/test_accelerate_registry.py builds them (_DummyAction),
\* some with upper-case letters in the category or the id
DummyAction(action_id, category, profile_min) ==
  [id |-> action_id, category |-> category, risk |-> "low", requires_root |-> FALSE,
   platforms |-> {"linux", "windows", "macos"}, profile_min |-> profile_min,
   impl |-> "dummy"]

DummyActions ==
  {DummyAction("gpu.one", "gpu", "minimal"),
   DummyAction("cpu.two", "cpu", "max"),
   DummyAction("process.three", "process", "balanced"),
   DummyAction("GPU.Boost", "GPU", "expert"),
   DummyAction("cpu.zero", "Cpu", "minimal")}

\* the lists of distinct actions of at most MaxActions elements
ActionLists ==
  UNION {{q \in [1..n -> DummyActions] : \A i, j \in 1..n : i # j => q[i] # q[j]} :
           n \in 0..MaxActions}

OnlyValues == {None, Some({}), Some({"gpu", "process"}), Some({"GPU"}),
               Some({"Process.Three"}), Some({"cpu.two", "cpu"})}
ExcludeValues == {None, Some({}), Some({"cpu"}), Some({"CPU", "gpu"})}

FilterInit ==
  /\ SysParked
  /\ PlanParked
  /\ _REGISTRY = <<>> /\ registered = <<>> /\ listed = None
  /\ load_result = None /\ build_args = None /\ plans = <<>> /\ apply_calls = <<>>
  /\ filter_args \in {Some([actions |-> q, only |-> o, exclude |-> e, profile |-> p]) :
                        q \in ActionLists, o \in OnlyValues, e \in ExcludeValues,
                        p \in DOMAIN PROFILE_ORDER}
  /\ filtered = None

\* filter_actions(actions, only, exclude, profile)
CallFilterActions ==
  /\ filtered = None
  /\ filtered' = Some(filter_actions(Val(filter_args).actions, Val(filter_args).only,
                                     Val(filter_args).exclude, Val(filter_args).profile))
  /\ UNCHANGED <<_REGISTRY, registered, listed, filter_args, load_result, build_args, plans>>
  /\ UNCHANGED <<sysvars, planvars, apply_calls, scriptvars>>

FilterNext == CallFilterActions

FilterSpec == FilterInit /\ [][FilterNext]_vars

\* rank of a profile name as the claim orders them
ProfileRank(name) ==
  CASE name = "minimal" -> 1 [] name = "balanced" -> 2 [] name = "max" -> 3
    [] name = "expert" -> 4

\* a string set holds s in some spelling
HoldsIgnoringCase(values, s) == \E v \in values : lower(v) = lower(s)

\* the action passes profile, exclude and only as the claim states them
Eligible(a, only, exclude, profile) ==
  /\ ProfileRank(a.profile_min) <= ProfileRank(profile)
  /\ exclude # None => ~HoldsIgnoringCase(Val(exclude), a.category)
  /\ (only # None /\ Val(only) # {}) =>
       (HoldsIgnoringCase(Val(only), a.category) \/ HoldsIgnoringCase(Val(only), a.id))

(***************************************************************************)
(* C11: filter_actions returns exactly the actions whose profile_min rank  *)
(* is at most the profile's, whose category is not in exclude and, when    *)
(* only is non-empty, whose category or id is in only (all ignoring case), *)
(* in ascending id order; an excluded category is never returned even if   *)
(* only names it.                                                          *)
(***************************************************************************)
C11_FilterKeepsExactlyEligible ==
  filtered # None =>
    LET args == Val(filter_args)
        out == Val(filtered)
    IN /\ Range(out) = {a \in Range(args.actions) :
                          Eligible(a, args.only, args.exclude, args.profile)}
       /\ \A i, j \in 1..Len(out) : i < j => IdRank(out[i].id) < IdRank(out[j].id)
       /\ \A i \in 1..Len(out) :
            args.exclude # None => ~HoldsIgnoringCase(Val(args.exclude), out[i].category)

\* the case of the test: gpu, cpu and process actions all eligible, only
\* {gpu, process}, exclude {cpu}: the gpu and the process action come back
C11_Witness ==
  /\ filter_args = Some([actions |-> <<DummyAction("gpu.one", "gpu", "minimal"),
                                       DummyAction("cpu.two", "cpu", "max"),
                                       DummyAction("process.three", "process", "balanced")>>,
                         only |-> Some({"gpu", "process"}), exclude |-> Some({"cpu"}),
                         profile |-> "max"])
  /\ filtered = Some(<<DummyAction("gpu.one", "gpu", "minimal"),
                       DummyAction("process.three", "process", "balanced")>>)


(***************************************************************************)
(* Library calls: the registry                                             *)
(***************************************************************************)
\* register_action calls between two clear_registry calls
MaxRegisterCalls == 4

\* the built-in actions and the plugin actions, one of which has the id of
\* a built-in
Registrable == {CpuGovernorAction, NvidiaPersistenceAction, ProcessPriorityAction}
                 \cup PluginActions

RegistryInit ==
  /\ SysParked
  /\ PlanParked
  /\ NoLibraryCall

\* register_action(action)
CallRegisterAction(action) ==
  /\ Len(registered) < MaxRegisterCalls
  /\ _REGISTRY' = register_action(_REGISTRY, action)
  /\ registered' = Append(registered, action)
  /\ listed' = None
  /\ UNCHANGED <<filter_args, filtered, load_result, build_args, plans>>
  /\ UNCHANGED <<sysvars, planvars, apply_calls, scriptvars>>

\* clear_registry()
CallClearRegistry ==
  /\ _REGISTRY' = clear_registry
  /\ registered' = <<>>
  /\ listed' = None
  /\ UNCHANGED <<filter_args, filtered, load_result, build_args, plans>>
  /\ UNCHANGED <<sysvars, planvars, apply_calls, scriptvars>>

\* get_actions()
CallGetActions ==
  /\ listed' = Some(get_actions(_REGISTRY))
  /\ UNCHANGED <<_REGISTRY, registered, filter_args, filtered, load_result, build_args,
                 plans>>
  /\ UNCHANGED <<sysvars, planvars, apply_calls, scriptvars>>

RegistryNext ==
  \/ \E action \in Registrable : CallRegisterAction(action)
  \/ CallClearRegistry
  \/ CallGetActions

RegistrySpec == RegistryInit /\ [][RegistryNext]_vars

\* the last registration of an id since the last clear
LastRegistered(id) ==
  registered[CHOOSE k \in 1..Len(registered) :
               /\ registered[k].id = id
               /\ \A n \in (k + 1)..Len(registered) : registered[n].id # id]

(***************************************************************************)
(* C12: after any sequence of register_action and clear_registry calls,    *)
(* get_actions returns exactly one action per distinct id registered      *)
(* since the last clear, namely the most recently registered one for that  *)
(* id, and the list is in ascending id order.                              *)
(***************************************************************************)
C12_RegistryKeepsLatestPerId ==
  listed # None =>
    LET out == Val(listed)
    IN /\ {out[i].id : i \in 1..Len(out)} = {registered[k].id : k \in 1..Len(registered)}
       /\ \A i, j \in 1..Len(out) : i < j => IdRank(out[i].id) < IdRank(out[j].id)
       /\ \A i \in 1..Len(out) : out[i] = LastRegistered(out[i].id)

\* a plugin action registered over the built-in of the same id, after an
\* action with a later id
C12_Witness ==
  /\ Len(registered) = 3
  /\ registered[1] = ProcessPriorityAction
  /\ registered[2] = CpuGovernorAction
  /\ registered[3].id = "cpu.governor" /\ registered[3].impl = "plugin"
  /\ listed # None
  /\ Len(Val(listed)) = 2
  /\ Val(listed)[1] = registered[3]


(***************************************************************************)
(* Library calls: build_plan, twice on the same host and arguments         *)
(***************************************************************************)
\* build_plan calls on one host state
MaxBuilds == 2

BuildArgs ==
  [profile : DOMAIN PROFILE_ORDER, only : {None, Some({"gpu", "process"})},
   include_timestamp : BOOLEAN, pb : PlanBehaviours]

BuildInit ==
  /\ SysParked
  /\ machine \in Machines
  /\ plugin_dir \in PluginDirs
  /\ Variation(machine, plugin_dir, PlainOptions) <= MaxVariation
  /\ NoLaunch
  /\ _REGISTRY = <<>> /\ registered = <<>> /\ listed = None
  /\ filter_args = None /\ filtered = None /\ load_result = None
  /\ build_args \in {Some(a) : a \in BuildArgs}
  /\ plans = <<>> /\ apply_calls = <<>>

\* build_plan(profile, only, None, profile == "expert", include_timestamp),
\* the n-th call at the n-th instant
CallBuildPlan ==
  /\ Len(plans) < MaxBuilds /\ Len(plans) < Len(Clock)
  /\ plans' = Append(plans,
                     build_plan(Val(build_args).profile, Val(build_args).only, None,
                                Val(build_args).profile = "expert",
                                Val(build_args).include_timestamp, machine, plugin_dir,
                                Val(build_args).pb, Clock[Len(plans) + 1]).plan)
  /\ UNCHANGED <<_REGISTRY, registered, listed, filter_args, filtered, load_result,
                 build_args>>
  /\ UNCHANGED <<sysvars, planvars, apply_calls, scriptvars>>

BuildNext == CallBuildPlan

BuildSpec == BuildInit /\ [][BuildNext]_vars

\* the descriptors are in strictly ascending id order
AscendingIds(recommendations) ==
  \A i, j \in 1..Len(recommendations) :
    i < j => IdRank(recommendations[i].action_id) < IdRank(recommendations[j].action_id)

\* the plan id names the profile and the ids, and nothing else
StablePlanId(plan) ==
  "launch-" \o sha1(JoinBar(<<plan.profile>>
       \o SortedIds({plan.recommendations[i].action_id : i \in 1..Len(plan.recommendations)})))

(***************************************************************************)
(* C13: the descriptors of every plan build_plan produces are in ascending *)
(* action-id order without a duplicate id; with timestamps disabled two    *)
(* builds on identical inputs give identical plans, created_at is empty    *)
(* and plan_id is derived from the profile and the sorted action ids only. *)
(***************************************************************************)
C13_PlanSortedAndReproducible ==
  /\ \A n \in 1..Len(plans) : AscendingIds(plans[n].recommendations)
  /\ (build_args # None /\ ~Val(build_args).include_timestamp) =>
       /\ \A n \in 1..Len(plans) :
            plans[n].created_at = "" /\ plans[n].plan_id = StablePlanId(plans[n])
       /\ \A n, k \in 1..Len(plans) : plans[n] = plans[k]

\* two builds at different instants without timestamps, of a plan that
\* lists a plugin action next to the built-in ones
C13_Witness ==
  /\ Len(plans) = 2
  /\ ~Val(build_args).include_timestamp
  /\ Len(plans[2].recommendations) = 4
  /\ plans[2].recommendations[4].action_id = "zz.custom"


(***************************************************************************)
(* Library calls: load_plugins                                             *)
(***************************************************************************)
\* files in .hydra/launch.d when load_plugins is called on its own
MaxLoaderFiles == 3

LoaderInit ==
  /\ SysParked
  /\ machine = None
  /\ plugin_dir \in {d \in SUBSET Range(PluginFileOrder) : Cardinality(d) <= MaxLoaderFiles}
  /\ NoLaunch
  /\ NoLibraryCall

\* build_plan up to load_plugins: clear_registry(), register_builtin_actions(),
\* load_plugins(register_action, cwd)
CallLoadPlugins ==
  /\ load_result = None
  /\ load_result' = Some(load_plugins(register_builtin_actions(clear_registry), plugin_dir))
  /\ UNCHANGED <<_REGISTRY, registered, listed, filter_args, filtered, build_args, plans>>
  /\ UNCHANGED <<sysvars, planvars, apply_calls, scriptvars>>

LoaderNext == CallLoadPlugins

LoaderSpec == LoaderInit /\ [][LoaderNext]_vars

\* loading the file ends in the except clause
FailsToLoad(f) == f.suffix = ".py" /\ (~f.imports \/ (f.has_register /\ f.register_raises))

\* the messages of a list that name the file
MessagesAbout(messages, f) ==
  SelectSeq(messages, LAMBDA w : w \in {"Plugin load failed for " \o f.name \o ": " \o exc :
                                         exc \in {"ImportError: cannot import plugin",
                                                  "RuntimeError: register failed"}})

\* what load_plugins returns when the file is not in the directory
LoadedWithout(f) == load_plugins(register_builtin_actions(clear_registry), plugin_dir \ {f})

(***************************************************************************)
(* C16: plugin loading is best-effort per file: when loading one file      *)
(* raises, load_plugins records one message for it in warnings and in      *)
(* failures, does not raise, and still processes the remaining files in    *)
(* sorted order, so that the hooks and the actions of the other files are  *)
(* loaded exactly as if the failing file were absent.                      *)
(***************************************************************************)
C16_FailingFileIsIsolated ==
  load_result # None =>
    \A f \in plugin_dir :
      FailsToLoad(f) =>
        /\ Len(MessagesAbout(Val(load_result).warnings, f)) = 1
        /\ Len(MessagesAbout(Val(load_result).failures, f)) = 1
        /\ Val(load_result).hooks = LoadedWithout(f).hooks
        /\ \A g \in plugin_dir \ {f} :
             \A i \in 1..Len(g.adds) :
               g.adds[i] \in Range(LoadedWithout(f).registry) =>
                 g.adds[i] \in Range(Val(load_result).registry)


(***************************************************************************)
(* Vocabulary of the claims about plugins in a launch                      *)
(***************************************************************************)
FileNamed(name) == CHOOSE f \in Range(PluginFileOrder) : f.name = name

\* the calls of the register callback the modules of the directory make
RegisterCalls(dir) ==
  UNION {{<<f.name, i>> : i \in 1..Len(f.adds)} :
           f \in {g \in dir : g.suffix = ".py" /\ g.imports /\ g.has_register}}

\* the names of the directory's shell scripts with, or without, "post" in
\* the stem
ShellNames(dir, post) ==
  {f.name : f \in {g \in dir : g.suffix = ".sh" /\ g.post_in_stem = post}}

OtherSuffix(f) == f.suffix \notin {".sh", ".py"}

\* a warning, a failure or a hook of the report names the file
ReportMentions(rep, f) ==
  \/ f.name \in Range(rep.plugin_summary.loaded_files)
  \/ f.name \in Range(rep.plugin_summary.pre_apply_shell)
  \/ f.name \in Range(rep.plugin_summary.post_apply_shell)
  \/ "Plugin " \o f.name \o " register() did not add actions" \in Range(rep.warnings)
  \/ MessagesAbout(rep.warnings, f) # <<>>
  \/ MessagesAbout(rep.plugin_summary.failures, f) # <<>>

WarmupScenario == {FileNamed("warmup_hook.sh"), FileNamed("plugin_empty.py")}

(***************************************************************************)
(* C17: with warmup_hook.sh and one module whose register adds nothing in  *)
(* the plugin directory, the report lists the script in                    *)
(* plugin_summary.pre_apply_shell, warns of the zero-action registration   *)
(* and has actions_loaded = 0.  For every directory, each .sh file is in   *)
(* exactly one of pre_apply_shell and post_apply_shell (post iff "post"    *)
(* is in its stem), a file that is neither .sh nor .py is ignored, and     *)
(* actions_loaded is the number of register_action calls the plugins made. *)
(***************************************************************************)
C17_ReportShowsPlugins ==
  report # None =>
    LET rep == Val(report)
        ps == rep.plugin_summary
    IN /\ plugin_dir = WarmupScenario =>
            /\ "warmup_hook.sh" \in Range(ps.pre_apply_shell)
            /\ "Plugin plugin_empty.py register() did not add actions" \in Range(rep.warnings)
            /\ ps.actions_loaded = 0
       /\ Range(ps.pre_apply_shell) = ShellNames(plugin_dir, FALSE)
       /\ Range(ps.post_apply_shell) = ShellNames(plugin_dir, TRUE)
       /\ Len(ps.pre_apply_shell) + Len(ps.post_apply_shell)
            = Cardinality({f \in plugin_dir : f.suffix = ".sh"})
       /\ \A f \in plugin_dir : OtherSuffix(f) => ~ReportMentions(rep, f)
       /\ ps.actions_loaded = Cardinality(RegisterCalls(plugin_dir))

\* a report of the scenario has been written
C17_Witness ==
  /\ report # None
  /\ plugin_dir = WarmupScenario
  /\ Val(report).plugin_summary.pre_apply_shell = <<"warmup_hook.sh">>


\* the native callables load_plugins collects for a stage
UsableModule(f) ==
  f.suffix = ".py" /\ f.hook_suffix /\ f.imports /\ ~(f.has_register /\ f.register_raises)
PyHookFiles(dir, stage) ==
  {f.name : f \in {g \in dir : UsableModule(g)
                                 /\ IF stage = "pre" THEN g.pre_apply ELSE g.post_apply}}

\* the hooks of a stage, by kind, that the directory gives
HooksOf(dir, stage, kind) ==
  IF kind = "shell" THEN ShellNames(dir, stage = "post") ELSE PyHookFiles(dir, stage)

\* the calls of the history with that stage and kind
CallsOf(stage, kind) ==
  SelectSeq(hooks_run, LAMBDA c : c.stage = stage /\ c.kind = kind)

FailedCalls == SelectSeq(hooks_run, LAMBDA c : c.outcome # "ok")

\* the warning of a failed call
WarnsOf(c, w) ==
  IF c.kind = "shell"
    THEN w \in {"Hook " \o c.hook \o " failed: " \o t :
                  t \in {"stderr of the hook", "TimeoutExpired: timed out after 20 seconds",
                         "FileNotFoundError: sh"}}
    ELSE w = "Python " \o c.stage \o " hook failed: RuntimeError: " \o c.hook

\* every hook of the stage was called, once
StageRan(stage) ==
  \A kind \in {"shell", "py"} :
    /\ {c.hook : c \in Range(CallsOf(stage, kind))} = HooksOf(plugin_dir, stage, kind)
    /\ Len(CallsOf(stage, kind)) = Cardinality(HooksOf(plugin_dir, stage, kind))

\* the loop called apply for every selected action the plan supports
SelectedWereApplied ==
  /\ Len(results) = Len(Val(built).internal_data)
  /\ \A i \in 1..Len(results) :
       LET item == Val(built).internal_data[i]
       IN (item.action.id \in selected_ids /\ item.supported)
            => attempts[i] \notin {"not_selected", "unsupported"}

(***************************************************************************)
(* C18: hooks never abort the apply pipeline.  A shell hook that exits     *)
(* non-zero, times out or cannot be spawned, and a native pre_apply or     *)
(* post_apply callable that raises, each add one warning and nothing else: *)
(* the remaining hooks still run, every selected and supported action is   *)
(* still applied, the report is still written, and the exit code is 0.     *)
(* A launch ended by KeyboardInterrupt is not a hook failure.              *)
(***************************************************************************)
C18_HooksNeverAbort ==
  /\ Len(hook_warnings) = Len(FailedCalls)
  /\ \A i \in 1..Len(FailedCalls) : WarnsOf(FailedCalls[i], hook_warnings[i])
  /\ (FailedCalls # <<>> /\ pc \in {"apply", "post_hooks", "report", "done"})
       => StageRan("pre")
  /\ (FailedCalls # <<>> /\ pc \in {"post_hooks", "report", "done"} /\ ~Interrupted)
       => SelectedWereApplied
  /\ (FailedCalls # <<>> /\ pc \in {"report", "done"} /\ ~Interrupted)
       => StageRan("post")
  /\ (FailedCalls # <<>> /\ pc = "done" /\ ~Interrupted)
       => /\ report # None
          /\ Val(report).mode = "apply"
          /\ Persisted(Val(report))
          /\ \A i \in 1..Len(hook_warnings) : hook_warnings[i] \in Range(Val(report).warnings)
          /\ launch_exit = Some(0)

\* a launch whose first pre-apply hook failed went on to call the next hook,
\* applied an action and wrote its report
C18_Witness ==
  /\ pc = "done" /\ launch_exit = Some(0) /\ report # None
  /\ Len(hooks_run) = 2
  /\ hooks_run[1].outcome \in {"timeout", "raise"}
  /\ \E i \in 1..Len(results) : results[i].applied


(***************************************************************************)
(* Library calls: the apply of a built-in action                           *)
(***************************************************************************)
MaxApplies == 2

BuiltinActions == {CpuGovernorAction, NvidiaPersistenceAction, ProcessPriorityAction}

\* action.check(ctx) of a built-in action
BuiltinCheck(a, c, m) ==
  CASE a.impl = "cpu_governor" -> CpuGovernorAction_check(c, m)
    [] a.impl = "nvidia_persistence" -> NvidiaPersistenceAction_check(c, m)
    [] OTHER -> ProcessPriorityAction_check(c, m)

\* the context detect_context builds on the host, as build_plan passes it on
HostCtx == RuntimeCtx(build_context(machine), "balanced")

ApplyInit ==
  /\ SysParked
  /\ machine \in Machines
  /\ plugin_dir = {}
  /\ NoLaunch
  /\ NoLibraryCall

\* apply reaches subprocess.run of the command that changes the host
ReachesCommand(a, c, m) ==
  a.impl # "process_priority" /\ BuiltinCheck(a, c, m).supported /\ c.user_is_root

\* action.apply(ctx) of a built-in action; oc is how its command ends
CallApply(a, oc) ==
  /\ Len(apply_calls) < MaxApplies
  /\ oc # "ok" => ReachesCommand(a, HostCtx, machine)
  /\ apply_calls' = Append(apply_calls,
                           [action |-> a, ctx |-> HostCtx, before |-> machine, oc |-> oc,
                            res |-> apply(a, HostCtx, machine, oc, "applied").res,
                            ran |-> apply(a, HostCtx, machine, oc, "applied").ran,
                            after |-> apply(a, HostCtx, machine, oc, "applied").machine])
  /\ machine' = apply(a, HostCtx, machine, oc, "applied").machine
  /\ UNCHANGED <<plugin_dir, pc, opts, built, selected_ids, results, attempts, hook_warnings,
                 hooks_run, report, latest_json, out_json, launch_exit, launch_log>>
  /\ UNCHANGED <<_REGISTRY, registered, listed, filter_args, filtered, load_result,
                 build_args, plans>>
  /\ UNCHANGED <<sysvars, scriptvars>>

ApplyNext == \E a \in BuiltinActions, oc \in CmdOutcomes : CallApply(a, oc)

ApplySpec == ApplyInit /\ [][ApplyNext]_vars

\* the host has what the action needs
HostSupports(a, m) ==
  CASE a.impl = "cpu_governor" -> m.os_name = "linux" /\ m.cpupower /\ m.governor # None
    [] a.impl = "nvidia_persistence" ->
         m.os_name = "linux" /\ m.has_nvidia_smi /\ m.nvidia_query # "error"
    [] OTHER -> TRUE

PrivilegeMet(a, c) == a.requires_root => c.user_is_root

\* the command of the action that changes the host
MutatingCommand(a) ==
  CASE a.impl = "cpu_governor" -> {CpupowerCommand}
    [] a.impl = "nvidia_persistence" -> {NvidiaPmCommand}
    [] OTHER -> {}

CommandFailureReasons ==
  {"Command execution failed", "cpupower returned non-zero exit code",
   "nvidia-smi returned non-zero exit code"}

\* the three outcomes of a call and the condition for applied = true; quiet
\* tells which commands the first two outcomes may have run
ReportsThreeOutcomes(call, quiet) ==
  LET a == call.action
      r == call.res.value
      notes == BuiltinCheck(a, call.ctx, call.before).notes
  IN /\ ~call.res.raised
     /\ ~HostSupports(a, call.before) =>
          /\ ~r.supported /\ ~r.applied
          /\ notes # <<>> /\ r.skipped_reason = Some(JoinNotes(notes))
          /\ Range(call.ran) \subseteq quiet
     /\ (HostSupports(a, call.before) /\ ~PrivilegeMet(a, call.ctx)) =>
          /\ r.supported /\ ~r.applied
          /\ r.skipped_reason = Some("Root privileges required")
          /\ Range(call.ran) \subseteq quiet
     /\ (HostSupports(a, call.before) /\ PrivilegeMet(a, call.ctx)
           /\ MutatingCommand(a) # {} /\ call.oc # "ok") =>
          /\ r.supported /\ ~r.applied
          /\ r.skipped_reason # None /\ Val(r.skipped_reason) \in CommandFailureReasons
          /\ r.errors # <<>>
     /\ r.applied =>
          /\ HostSupports(a, call.before) /\ PrivilegeMet(a, call.ctx) /\ call.oc = "ok"
          /\ MutatingCommand(a) \subseteq Range(call.ran)

(***************************************************************************)
(* C19 as stated: every built-in action's apply reports unsupported host,  *)
(* missing privilege and command failure as three distinct outcomes:       *)
(* unsupported gives supported=false with the check notes as reason and no *)
(* command run; missing root gives supported=true, applied=false, reason   *)
(* 'Root privileges required' and no command run; a failed command gives   *)
(* supported=true, applied=false, a command-failure reason and errors.     *)
(* applied=true only if supported, privileged and the command returned 0.  *)
(***************************************************************************)
C19_ThreeOutcomesNoCommand ==
  \A i \in 1..Len(apply_calls) : ReportsThreeOutcomes(apply_calls[i], {})

(***************************************************************************)
(* C19 amended: the same, except that in the unsupported and in the        *)
(* missing-privilege outcome no command is run other than the read-only    *)
(* query 'nvidia-smi -q -d PERFORMANCE' that NvidiaPersistenceAction.check *)
(* makes when nvidia-smi is present; the host is left as it was.           *)
(***************************************************************************)
C19_ThreeOutcomesNoMutation ==
  \A i \in 1..Len(apply_calls) :
    /\ ReportsThreeOutcomes(apply_calls[i], {NvidiaQueryCommand})
    /\ ~apply_calls[i].res.value.applied => apply_calls[i].after = apply_calls[i].before

\* NvidiaPersistenceAction.apply without root on a host it supports: the
\* result asks for root and the query of check is the one command run
C19_Witness ==
  \E i \in 1..Len(apply_calls) :
    /\ apply_calls[i].action = NvidiaPersistenceAction
    /\ apply_calls[i].res.value.skipped_reason = Some("Root privileges required")
    /\ apply_calls[i].ran = <<NvidiaQueryCommand>>


(***************************************************************************)
(* Vocabulary of the claims about an apply run without tool and privilege  *)
(***************************************************************************)
\* an apply run of the built-in actions that went through its loop, on a
\* host without nvidia-smi and without root
UnprivilegedApplyRun ==
  /\ pc = "done" /\ ~Interrupted
  /\ opts # None /\ built # None
  /\ ~_parse_mode_flags(Val(opts).dry_run, Val(opts).apply).raised
  /\ ~_parse_mode_flags(Val(opts).dry_run, Val(opts).apply).value
  /\ RegisterCalls(plugin_dir) = {}
  /\ ~machine.has_nvidia_smi /\ ~machine.user_is_root
  /\ Len(results) = Len(Val(built).internal_data)

\* the results of the report for GPU actions and root-requiring actions
GuardedResults(rep) ==
  {r \in Range(rep.results) :
     \E a \in BuiltinActions :
       a.id = r.action_id /\ (a.category = "gpu" \/ a.requires_root)}

PrivilegeDenied(r) == ~r.applied /\ r.skipped_reason = Some("Root privileges required")

\* the result of an action the selection left out
LeftOut(r) ==
  ~r.applied /\ r.skipped_reason = Some("Not selected") /\ r.action_id \notin selected_ids

\* the rest of the scenario: nothing applied, the report has mode apply and
\* reached the files the options ask for
NothingApplied ==
  /\ report # None
  /\ Val(report).summary.applied = 0
  /\ \A r \in Range(Val(report).results) : ~r.applied
  /\ Val(report).mode = "apply"
  /\ Persisted(Val(report))

MaxCliOps == 2

CliInit == SysInit \/ PlanInit

CliNext ==
  \/ machine = None /\ nops < MaxCliOps /\ SysNext
  \/ machine # None /\ PlanNext

CliSpec == CliInit /\ [][CliNext]_vars

\* the flag combinations 'accelerate' documents as usage errors
ConflictingFlags(fl) ==
  \/ fl.cpu_only /\ fl.gpu_only
  \/ Cardinality({k \in {"on", "off", "status"} : fl[k]}) > 1

\* the value of --only / --exclude holds no token at all
MalformedFilter(v) == v # None /\ \A i \in 1..Len(Val(v)) : Val(v)[i] \in {"", " "}

\* the value of --only / --exclude names a category no action has
UnknownFilter(v) == v # None /\ \E i \in 1..Len(Val(v)) : Val(v)[i] = "bogus"

\* the 'launch' command lines the documentation lists as usage errors
BadLaunchOptions(o) ==
  \/ o.dry_run /\ o.apply
  \/ o.profile \notin {"minimal", "balanced", "max", "expert"}
  \/ MalformedFilter(o.only) \/ UnknownFilter(o.only)
  \/ MalformedFilter(o.exclude) \/ UnknownFilter(o.exclude)

\* no action was applied or attempted, no hook ran, no report was written
\* and the host is what it was
LaunchLeftNoTrace ==
  /\ results' = <<>> /\ attempts' = <<>> /\ hooks_run' = <<>>
  /\ \A i \in 1..Len(launch_log') :
       launch_log'[i] \notin {CpupowerCommand, NvidiaPmCommand, PluginCommand}
  /\ machine' = machine
  /\ report' = report /\ latest_json' = latest_json /\ out_json' = out_json
  /\ UNCHANGED <<host, file>>

\* C21: a command line with a usage error (a malformed or unknown --only /
\* --exclude, --dry-run with --apply, a --profile outside the four, --cpu-only
\* with --gpu-only, more than one of --on / --off / --status) ends with exit
\* code 2 and applies no action, runs no hook and no command of the toggle,
\* and writes neither a snapshot nor a report
C21_UsageErrorsExitTwo ==
  [][/\ nops' # nops =>
          \A fl \in Flags :
            (ConflictingFlags(fl) /\ accelerate_command(fl)) =>
              /\ exit_code' = Some(2)
              /\ log' = <<>>
              /\ UNCHANGED <<host, file, session>>
     /\ (pc = "idle" /\ opts' # None /\ BadLaunchOptions(Val(opts'))) =>
            /\ launch_exit' = Some(2)
            /\ pc' = "done"
            /\ LaunchLeftNoTrace]_vars

\* an unknown category in --only was refused after the probing plan had
\* queried the GPU
C21_Witness ==
  /\ pc = "done" /\ opts # None
  /\ UnknownFilter(Val(opts).only)
  /\ launch_exit = Some(2)
  /\ launch_log # <<>>


(***************************************************************************)
(* An 'off' with no session to end                                         *)
(***************************************************************************)
\* the step is a non-dry-run 'off'
NonDryOff == nops' # nops /\ last' # None /\ Val(last').cmd = "off" /\ ~Val(last').dry_run

\* no non-dry-run 'on' since the last non-dry-run 'off' (or since the start)
NoActiveSession == session.closed

\* C29: 'off' restores only while an 'on' session is active: once a
\* non-dry-run 'off' has completed, status reports the session inactive, and
\* a further non-dry-run 'off' before the next 'on' runs no restore command
\* and changes no tunable
C29_OffOnlyWhileActive ==
  [][/\ (NonDryOff /\ NoActiveSession) => (log' = <<>> /\ host' = host)
     /\ (nops' # nops /\ Val(last').cmd = "status" /\ NoActiveSession /\ rendered' # None) =>
          ~Val(rendered').active]_vars


(***************************************************************************)
(* The scope of an 'off' after a scoped 'on'                               *)
(***************************************************************************)
\* the step is an 'off' that follows a non-dry-run 'on' directly
OffAfterOn ==
  /\ AfterOn /\ ~Val(last).dry_run
  /\ nops' # nops /\ Val(last').cmd = "off"

CpuProcessKeys == {"cpu_governor", "swappiness", "nice", "rlimit_nofile"}
GpuKeys == {"nvidia_persistence_mode"}

\* the command the step is about reports no change for the tunables of keys
\* and ran no mutating command or system call for them
Untouched(keys) ==
  /\ \A k \in keys : ChangesNamed(Val(rendered').changes_applied, ChangeName(k)) = {}
  /\ \A i \in 1..Len(log') : log'[i].mutating => \A k \in keys : log'[i].tool # ToolOf(k)

\* C25: restore honours the scope of the apply it undoes: the 'off' after an
\* 'on --gpu-only' reports no change and runs no mutation for the governor,
\* swappiness, niceness and the file-descriptor limit, and the 'off' after an
\* 'on --cpu-only' none for GPU persistence
C25_RestoreHonoursScope ==
  [][OffAfterOn =>
       /\ Val(last).gpu_only => Untouched(CpuProcessKeys)
       /\ Val(last).cpu_only => Untouched(GpuKeys)]_vars


(***************************************************************************)
(* How a failed command is reported                                        *)
(***************************************************************************)
\* the tunables a pass changes with an external command
CommandKeys == {"cpu_governor", "swappiness", "nvidia_persistence_mode", "power_plan_guid"}

\* the error text captured from a failed command
CapturedText(o) == IF o.err = "" THEN "unknown error" ELSE o.err

\* the entry of the failures list names the tunable n
NamesTunable(text, n) ==
  \E o \in Outcomes : text \in {n \o ": " \o CapturedText(o), n \o " restore: " \o CapturedText(o)}

\* the command line of the step, as flags
FlagsOfStep ==
  [on |-> Val(last').cmd = "on", off |-> Val(last').cmd = "off", status |-> FALSE,
   dry_run |-> Val(last').dry_run,
   cpu_only |-> Val(last').cmd = "on" /\ Val(last').cpu_only,
   gpu_only |-> Val(last').cmd = "on" /\ Val(last').gpu_only]

\* the step is a non-dry-run pass whose commands ended as oc says
PassWith(oc) ==
  IF Val(last').cmd = "on" THEN CmdOn(FlagsOfStep, oc) ELSE CmdOffRestore(FlagsOfStep, oc)

\* the mutating command of tunable k ran in the step and failed
CommandFailed(oc, k) ==
  /\ oc[ToolOf(k)].code # 0
  /\ \E i \in 1..Len(log') :
       log'[i].kind = "cmd" /\ log'[i].mutating /\ log'[i].tool = ToolOf(k)

\* the pass reports tunable k as failed, with the error text, in both lists
ReportedFailed(oc, k) ==
  LET chs == Val(rendered').changes_applied
      fails == Val(rendered').failures
  IN /\ ChangesNamed(chs, ChangeName(k)) # {}
     /\ \A i \in ChangesNamed(chs, ChangeName(k)) :
          chs[i].result = "failed" /\ chs[i].message = CapturedText(oc[ToolOf(k)])
     /\ \E j \in 1..Len(fails) : NamesTunable(fails[j], ChangeName(k))

\* C27: in an apply or restore pass, a tunable whose mutating command ran
\* and failed is reported with result 'failed', the captured error text and
\* an entry naming it in the failures list, never as 'skipped'; and every
\* 'failed' change has a matching entry in the failures list
C27_CommandFailureIsReported ==
  [][(/\ nops' # nops /\ Val(last').cmd \in {"on", "off"} /\ ~Val(last').dry_run
      /\ "message" \notin DOMAIN Val(rendered')) =>
       /\ \A oc \in Affordable(ctx, IF Val(last').cmd = "on" THEN "apply" ELSE "restore",
                                FlagsOfStep, faults) :
            PassWith(oc) => \A k \in CommandKeys : CommandFailed(oc, k) => ReportedFailed(oc, k)
       /\ LET chs == Val(rendered').changes_applied
              fails == Val(rendered').failures
          IN \A i \in 1..Len(chs) :
               chs[i].result = "failed" =>
                 \E j \in 1..Len(fails) : NamesTunable(fails[j], chs[i].name)]_vars


(***************************************************************************)
(* --no-state-write                                                        *)
(***************************************************************************)
\* a step of a planner-mode launch that was given --no-state-write
NoStateWriteStep == opts' # None /\ Val(opts').no_state_write

\* C24: in planner mode with --no-state-write, .hydra/state/launch_latest.json
\* is never written or modified, in dry-run and in apply mode, with or
\* without --out; with --out the report goes to the --out path only
C24_NoStateWriteLeavesLatest ==
  [][NoStateWriteStep =>
       /\ latest_json' = latest_json
       /\ report' # report =>
            out_json' = IF Val(opts').out THEN report' ELSE out_json]_vars


(***************************************************************************)
(* reporting.build_report called on results in any order                   *)
(***************************************************************************)
MaxReportResults == 3

\* the ways an AccelerationActionResult may be constructed for an action
ResultKinds == {"applied", "not_selected", "unsupported", "no_reason"}

ResultOfKind(a, kind) ==
  CASE kind = "applied" -> AccelerationActionResult(Result(a, TRUE, TRUE, None, <<>>, <<>>))
    [] kind = "not_selected" ->
         AccelerationActionResult(Result(a, TRUE, FALSE, Some("Not selected"), <<>>, <<>>))
    [] kind = "unsupported" ->
         AccelerationActionResult(
           Result(a, FALSE, FALSE, Some("Unsupported on this environment"), <<>>, <<>>))
    [] OTHER -> AccelerationActionResult(Result(a, TRUE, FALSE, None, <<>>, <<>>))

\* the result lists build_report may be given for the plan bp: instances
\* the constructor accepted, for distinct actions of the plan, in any order
ResultLists(bp) ==
  LET n == Len(bp.internal_data)
      orders == UNION {{f \in [1..k -> 1..n] : \A i, j \in 1..k : i # j => f[i] # f[j]} :
                         k \in 0..Min(n, MaxReportResults)}
  IN UNION {{[i \in DOMAIN f |-> ResultOfKind(bp.internal_data[f[i]].action, kinds[i]).value] :
               kinds \in {ks \in [DOMAIN f -> ResultKinds] :
                            \A i \in DOMAIN f :
                              ~ResultOfKind(bp.internal_data[f[i]].action, ks[i]).raised}} :
            f \in orders}

\* the plan of a default launch on the host
ReportPlan(m, dir) ==
  build_plan("balanced", None, None, FALSE, TRUE, m, dir,
             [id \in PluginIds(dir) |-> "recommended"], Clock[1])

ReportInit ==
  /\ SysParked
  /\ machine \in {m \in Machines : m.os_name = "linux" /\ Variation(m, {}, PlainOptions) = 0}
  /\ plugin_dir \in {d \in PluginDirs : Cardinality(d) <= 1 /\ PluginIds(d) = {}}
  /\ pc = "idle"
  /\ opts = None
  /\ built = Some(ReportPlan(machine, plugin_dir))
  /\ results \in ResultLists(ReportPlan(machine, plugin_dir))
  /\ selected_ids \in SUBSET {ReportPlan(machine, plugin_dir).internal_data[i].action.id :
                                i \in 1..Len(ReportPlan(machine, plugin_dir).internal_data)}
  /\ attempts = <<>>
  /\ hook_warnings \in {<<>>, <<"Hook warmup_hook.sh failed: stderr of the hook">>}
  /\ hooks_run = <<>>
  /\ report = None
  /\ latest_json = None
  /\ out_json = None
  /\ launch_exit = None
  /\ launch_log = <<>>
  /\ NoLibraryCall

\* build_report(plan, action_results, ctx, selected_action_ids, dry_run,
\* plugin_result, hook_warnings)
CallBuildReport(dry_run) ==
  /\ pc = "idle"
  /\ report' = Some(build_report(Val(built).plan, results, Val(built).ctx, selected_ids,
                                 dry_run, Val(built).plugin_result, hook_warnings))
  /\ pc' = "done"
  /\ UNCHANGED <<machine, plugin_dir, opts, built, selected_ids, results, attempts,
                 hook_warnings, hooks_run, latest_json, out_json, launch_exit, launch_log>>
  /\ UNCHANGED <<sysvars, libvars, scriptvars>>

ReportNext == \E dry_run \in BOOLEAN : CallBuildReport(dry_run)

ReportSpec == ReportInit /\ [][ReportNext]_vars

\* the ids of a sequence of results
ResultIds(rs) == [i \in 1..Len(rs) |-> rs[i].action_id]

\* a sequence of ids in strictly ascending order
Ascending(ids) == \A i, j \in 1..Len(ids) : i < j => IdRank(ids[i]) < IdRank(ids[j])

CountWhere(rs, applied, supported) ==
  Cardinality({i \in 1..Len(rs) : rs[i].applied \in applied /\ rs[i].supported \in supported})

\* the results the report was built from arrived out of order
OutOfOrder == ~Ascending(ResultIds(results))

\* C26: a report of build_report lists the results it was given in
\* ascending id order and the selected ids sorted, whatever the order of the
\* inputs; its summary follows from the results alone (total their number,
\* applied those with applied=true, unsupported those with supported=false,
\* skipped those with applied=false, so applied + skipped = total); its
\* warnings are the plan's followed by the apply/hook warnings
C26_ReportIsSortedAndDerivable ==
  (pc = "done" /\ report # None) =>
    LET rep == Val(report)
    IN /\ Ascending(ResultIds(rep.results))
       /\ Range(rep.results) = Range(results) /\ Len(rep.results) = Len(results)
       /\ Ascending(rep.selected_action_ids)
       /\ Range(rep.selected_action_ids) = selected_ids
       /\ rep.summary.total = Len(rep.results)
       /\ rep.summary.applied = CountWhere(rep.results, {TRUE}, BOOLEAN)
       /\ rep.summary.unsupported = CountWhere(rep.results, BOOLEAN, {FALSE})
       /\ rep.summary.skipped = CountWhere(rep.results, {FALSE}, BOOLEAN)
       /\ rep.summary.applied + rep.summary.skipped = rep.summary.total
       /\ rep.warnings = Val(built).plan.warnings \o hook_warnings

\* a report built from three results given out of order, one applied, for a
\* plan that carries a warning, with a hook warning after it
C26_Witness ==
  /\ pc = "done" /\ report # None
  /\ OutOfOrder /\ Len(results) = 3
  /\ Val(report).summary.applied >= 1 /\ Val(report).summary.skipped >= 1
  /\ Val(built).plan.warnings # <<>> /\ hook_warnings # <<>>


(***************************************************************************)
(* The apply loop: which actions it applies, and when                      *)
(***************************************************************************)
\* the step is an iteration of the apply loop
LoopStep == Len(attempts') = Len(attempts) + 1

\* the iteration called the action's apply
AppliedNow == attempts'[Len(attempts')] \notin {"not_selected", "unsupported"}

\* no hook of the post stage has been called
NoPostHookYet == CallsOf("post", "shell") = <<>> /\ CallsOf("post", "py") = <<>>

\* the step calls hooks of the post stage
PostHookStep ==
  \E i \in 1..Len(hooks_run') : hooks_run'[i].stage = "post" /\ i > Len(hooks_run)

\* one result for each action of the plan, in the plan's ascending id order
OneResultEach ==
  /\ ResultIds(results') = [i \in 1..Len(Val(built').internal_data) |->
                              Val(built').internal_data[i].action.id]
  /\ Ascending(ResultIds(results'))
  /\ Len(attempts') = Len(results')

\* C28: in planner apply mode apply is called only for an action that is
\* selected and that the plan-time check found supported; an unsupported
\* action is never attempted, selected or not; each action gets exactly one
\* result, in ascending id order, and its apply is called at most once, after
\* every pre-apply hook and before any post-apply hook
C28_ApplyOnlySelectedSupported ==
  [][/\ LoopStep =>
          LET item == Val(built).internal_data[Len(attempts')]
          IN /\ AppliedNow => /\ item.action.id \in selected_ids /\ item.supported
                              /\ StageRan("pre") /\ NoPostHookYet
             /\ ~item.supported =>
                  /\ ~AppliedNow
                  /\ machine' = machine /\ launch_log' = launch_log
                  /\ ~results'[Len(results')].applied
             /\ Len(attempts') <= Len(Val(built).internal_data)
             /\ results'[Len(results')].action_id = item.action.id
     /\ PostHookStep => Len(attempts) = Len(Val(built).internal_data)
     /\ pc' \in {"post_hooks", "report"} => OneResultEach]_vars

\* the operator selected an action the check had found unsupported: it got
\* its result without being applied, another action was applied, and the
\* hooks ran around the loop
C28_Witness ==
  /\ pc = "done" /\ report # None /\ Val(report).mode = "apply"
  /\ \E i \in 1..Len(results) :
       /\ ~Val(built).internal_data[i].supported
       /\ results[i].action_id \in selected_ids
       /\ attempts[i] = "unsupported"
  /\ \E i \in 1..Len(attempts) : attempts[i] \notin {"not_selected", "unsupported"}
  /\ hooks_run # <<>>

(***************************************************************************)
(* Part 4: the script-mode launch: launch_command with a training script   *)
(*   and launch_training_script's auto-resume loop                         *)
(*   (accelerate/cli.py, accelerate/launcher.py).                          *)
(***************************************************************************)
\* largest --max-restarts of a launch
MaxRestarts == 2
\* number of options a script-mode launch sets away from their defaults
MaxScriptVariation == 2
\* number of tools that fail in one execute_acceleration_action call
MaxCallFaults == 1

\* checkpoint files the training script may leave under checkpoints/
Checkpoints == {"checkpoints/a.pt", "checkpoints/b.pt"}

\* return codes of the training script
ReturnCodes == {0, 1}

\* the arguments given after the script
ScriptArgs == {<<"--epochs">>, <<"--resume", "checkpoints/old.pt">>}

known_resume_flags == {"--resume", "--resume-from", "--checkpoint", "--checkpoint-path",
                       "--ckpt", "--ckpt_path"}

\* _infer_resume_args(script_args, checkpoint)
_infer_resume_args(script_args, checkpoint) ==
  IF checkpoint = None
    THEN [args |-> script_args, note |-> "no checkpoint discovered"]
  ELSE IF \E i \in 1..Len(script_args) : script_args[i] \in known_resume_flags
    THEN [args |-> script_args, note |-> "resume flag already supplied"]
  ELSE [args |-> script_args \o <<"--resume", Val(checkpoint)>>,
        note |-> "appended --resume <checkpoint>"]

\* the options of launch_command that script mode reads
ScriptOptions == [script_exists : BOOLEAN, dry_run : BOOLEAN, apply : BOOLEAN,
                  accelerate : BOOLEAN, accelerate_dry_run : BOOLEAN,
                  require_accelerate : BOOLEAN, auto_resume : BOOLEAN,
                  max_restarts : 0..MaxRestarts, script_args : ScriptArgs]

\* launch train.py --epochs
DefaultScriptOptions ==
  [script_exists |-> TRUE, dry_run |-> FALSE, apply |-> FALSE, accelerate |-> FALSE,
   accelerate_dry_run |-> FALSE, require_accelerate |-> FALSE, auto_resume |-> TRUE,
   max_restarts |-> 1, script_args |-> <<"--epochs">>]

ScriptVariation(o) == Cardinality({k \in DOMAIN o : o[k] # DefaultScriptOptions[k]})

BoundedScriptOptions ==
  {o : o \in {x \in ScriptOptions : ScriptVariation(x) <= MaxScriptVariation}}

\* the arguments launch_training_script reads
LauncherArgs ==
  {o \in ScriptOptions : /\ o.script_exists /\ ~o.apply /\ ~o.accelerate
                         /\ ~o.accelerate_dry_run /\ ~o.require_accelerate}

\* every tool of a pass succeeds
AllOk == [t \in Tools |-> OkOutcome]

\* system_cli.execute_acceleration_action(action, dry_run, cpu_only, gpu_only): the
\* 'on' and 'off' branches of the toggle, run inside the calling process
execute_acceleration_action(action, dry_run, cpu_only, gpu_only, oc) ==
  LET fl == [on |-> action = "on", off |-> action = "off", status |-> FALSE,
             dry_run |-> dry_run, cpu_only |-> cpu_only, gpu_only |-> gpu_only]
  IN IF action = "on" THEN ToggleOn(fl, oc, FALSE)
     ELSE IF load_state(file) = None THEN oc = AllOk /\ ToggleOffNoState(fl)
     ELSE ToggleOffRestore(fl, oc, FALSE)

\* the outcomes a call can meet
CallOutcomes(action, dry_run) ==
  LET fl == [on |-> action = "on", off |-> action = "off", status |-> FALSE,
             dry_run |-> dry_run, cpu_only |-> FALSE, gpu_only |-> FALSE]
  IN {oc \in Affordable(ctx, IF action = "on" THEN "apply" ELSE "restore", fl, faults) :
        FaultCount(oc) <= MaxCallFaults}

\* one entry of the history of execute_acceleration_action calls
AccelCall(action, dry_run, ended) ==
  [action |-> action, dry_run |-> dry_run, ended |-> ended, at |-> spc, runs |-> runs]

\* mutant: a launch that was interrupted skips the 'off' step
OffIsDue_UnlessInterrupted(o, rep, exc) ==
  o.accelerate /\ exc # Some("KeyboardInterrupt")
    /\ (rep = None \/ Val(rep).status # "interrupted")

\* finally: if accelerate: execute_acceleration_action(action="off", ...)
OffIsDue(o, rep, exc) == o.accelerate

\* the dry_run argument of the 'off' call in the finally block
OffDryRun(o) == FALSE

\* launch_command: the usage errors of script mode
ScriptUsageError(o) ==
  /\ spc = "idle"
  /\ ~o.script_exists \/ (o.dry_run /\ o.apply)
  /\ sopts' = Some(o)
  /\ shell_host' = Some(host)
  /\ raised' = Some("UsageError")
  /\ spc' = "exit"
  /\ UNCHANGED <<accel_calls, runs, script_attempts, restarts_used, current_args,
                 latest_checkpoint, launch_report, script_exit>>
  /\ UNCHANGED <<sysvars, planvars, libvars>>

\* launch_command up to "if accelerate:"
ScriptBegin(o) ==
  /\ spc = "idle"
  /\ o.script_exists
  /\ ~(o.dry_run /\ o.apply)
  /\ sopts' = Some(o)
  /\ shell_host' = Some(host)
  /\ spc' = IF o.accelerate THEN "accelerate" ELSE "launch"
  /\ UNCHANGED <<accel_calls, runs, script_attempts, restarts_used, current_args,
                 latest_checkpoint, launch_report, raised, script_exit>>
  /\ UNCHANGED <<sysvars, planvars, libvars>>

\* the 'on' step returns its payload
AccelerateOnReturns(oc) ==
  /\ spc = "accelerate"
  /\ execute_acceleration_action("on", Val(sopts).accelerate_dry_run, FALSE, FALSE, oc)
  /\ accel_calls' = Append(accel_calls,
                           AccelCall("on", Val(sopts).accelerate_dry_run, "returned"))
  /\ spc' = "launch"
  /\ UNCHANGED <<sopts, shell_host, runs, script_attempts, restarts_used, current_args,
                 latest_checkpoint, launch_report, raised, script_exit>>
  /\ UNCHANGED <<planvars, libvars>>

\* the 'on' step raises: an Exception is reported as a warning and re-raised
\* under --require-accelerate, a KeyboardInterrupt leaves launch_command
\* (what a raising call has done to the host is left open by its callers and
\* is taken to be nothing)
AccelerateOnRaises(exc) ==
  /\ spc = "accelerate"
  /\ accel_calls' = Append(accel_calls,
                           AccelCall("on", Val(sopts).accelerate_dry_run, exc))
  /\ IF exc = "Exception" /\ ~Val(sopts).require_accelerate
       THEN spc' = "launch" /\ raised' = raised
       ELSE spc' = "exit" /\ raised' = Some(exc)
  /\ UNCHANGED <<sopts, shell_host, runs, script_attempts, restarts_used, current_args,
                 latest_checkpoint, launch_report, script_exit>>
  /\ UNCHANGED <<sysvars, planvars, libvars>>

\* the report launch_training_script builds
LaunchReport(mode, status, atts, used, o, code) ==
  [mode |-> mode, status |-> status, attempts |-> atts, restarts_used |-> used,
   max_restarts |-> o.max_restarts, script_args |-> o.script_args, exit_code |-> code]

\* launch_training_script(dry_run=True)
LaunchScriptDryRun ==
  /\ spc = "launch"
  /\ Val(sopts).dry_run
  /\ launch_report' = Some(LaunchReport("dry-run", "dry-run", <<>>, 0, Val(sopts), 0))
  /\ spc' = "finally"
  /\ UNCHANGED <<sopts, shell_host, accel_calls, runs, script_attempts, restarts_used,
                 current_args, latest_checkpoint, raised, script_exit>>
  /\ UNCHANGED <<sysvars, planvars, libvars>>

\* launch_training_script up to "while True:"; scan is what _scan_checkpoints finds
LaunchLoopBegin(scan) ==
  /\ spc = "launch"
  /\ ~Val(sopts).dry_run
  /\ script_attempts' = <<>>
  /\ restarts_used' = 0
  /\ current_args' = Val(sopts).script_args
  /\ latest_checkpoint' = scan
  /\ spc' = "loop"
  /\ UNCHANGED <<sopts, shell_host, accel_calls, runs, launch_report, raised, script_exit>>
  /\ UNCHANGED <<sysvars, planvars, libvars>>

\* mutant: the restart budget is compared one too late
AfterAttempt_OneMore(o, return_code, used, latest) ==
  IF return_code = 0
    THEN [again |-> FALSE, status |-> "completed", restarts_used |-> used,
          args |-> o.script_args]
  ELSE IF ~o.auto_resume \/ used > o.max_restarts
    THEN [again |-> FALSE, status |-> "failed", restarts_used |-> used,
          args |-> o.script_args]
  ELSE IF _infer_resume_args(o.script_args, latest).args = o.script_args
    THEN [again |-> FALSE, status |-> "failed", restarts_used |-> used,
          args |-> o.script_args]
  ELSE [again |-> TRUE, status |-> "failed", restarts_used |-> used + 1,
        args |-> _infer_resume_args(o.script_args, latest).args]

\* the loop body after "attempts.append(attempt_report)": break or restart
AfterAttempt(o, return_code, used, latest) ==
  IF return_code = 0
    THEN [again |-> FALSE, status |-> "completed", restarts_used |-> used,
          args |-> o.script_args]
  ELSE IF ~o.auto_resume \/ used >= o.max_restarts
    THEN [again |-> FALSE, status |-> "failed", restarts_used |-> used,
          args |-> o.script_args]
  ELSE IF _infer_resume_args(o.script_args, latest).args = o.script_args
    THEN [again |-> FALSE, status |-> "failed", restarts_used |-> used,
          args |-> o.script_args]
  ELSE [again |-> TRUE, status |-> "failed", restarts_used |-> used + 1,
        args |-> _infer_resume_args(o.script_args, latest).args]

\* one iteration of the loop whose script run returns return_code; seen is the
\* checkpoint _run_once reports, scan what _scan_checkpoints finds after the run
RunAttempt(return_code, seen, scan) ==
  /\ spc = "loop"
  /\ seen # latest_checkpoint => seen # None
  /\ LET o == Val(sopts)
         atts == Append(script_attempts,
                        [args |-> current_args, return_code |-> return_code,
                         checkpoint_seen |-> seen])
         latest == IF scan # None THEN scan ELSE seen
         step == AfterAttempt(o, return_code, restarts_used, latest)
     IN /\ runs' = runs + 1
        /\ script_attempts' = atts
        /\ latest_checkpoint' = latest
        /\ restarts_used' = step.restarts_used
        /\ IF step.again
             THEN /\ current_args' = step.args
                  /\ UNCHANGED <<spc, launch_report>>
             ELSE /\ launch_report' =
                       Some(LaunchReport("apply", step.status, atts, step.restarts_used, o,
                                         IF step.status = "completed" THEN 0 ELSE 1))
                  /\ spc' = "finally"
                  /\ UNCHANGED current_args
  /\ UNCHANGED <<sopts, shell_host, accel_calls, raised, script_exit>>
  /\ UNCHANGED <<sysvars, planvars, libvars>>

\* the script run is interrupted: _run_once terminates the child and re-raises,
\* launch_training_script reports status 'interrupted' and returns 130
RunInterrupted ==
  /\ spc = "loop"
  /\ runs' = runs + 1
  /\ launch_report' = Some(LaunchReport("apply", "interrupted", script_attempts,
                                        restarts_used, Val(sopts), 130))
  /\ spc' = "finally"
  /\ UNCHANGED <<sopts, shell_host, accel_calls, script_attempts, restarts_used,
                 current_args, latest_checkpoint, raised, script_exit>>
  /\ UNCHANGED <<sysvars, planvars, libvars>>

\* launch_training_script raises instead of returning: a KeyboardInterrupt
\* outside its loop, or an OSError of mkdir, Popen or the log file
LaunchRaises(exc) ==
  /\ spc = "launch" \/ (spc = "loop" /\ exc = "Exception")
  /\ raised' = Some(exc)
  /\ spc' = "finally"
  /\ UNCHANGED <<sopts, shell_host, accel_calls, runs, script_attempts, restarts_used,
                 current_args, latest_checkpoint, launch_report, script_exit>>
  /\ UNCHANGED <<sysvars, planvars, libvars>>

\* finally: without --accelerate nothing is restored
FinallyPlain ==
  /\ spc = "finally"
  /\ ~OffIsDue(Val(sopts), launch_report, raised)
  /\ spc' = "exit"
  /\ UNCHANGED <<sopts, shell_host, accel_calls, runs, script_attempts, restarts_used,
                 current_args, latest_checkpoint, launch_report, raised, script_exit>>
  /\ UNCHANGED <<sysvars, planvars, libvars>>

\* finally: the 'off' step returns its payload
FinallyOffReturns(oc) ==
  /\ spc = "finally"
  /\ OffIsDue(Val(sopts), launch_report, raised)
  /\ execute_acceleration_action("off", OffDryRun(Val(sopts)), FALSE, FALSE, oc)
  /\ accel_calls' = Append(accel_calls, AccelCall("off", OffDryRun(Val(sopts)), "returned"))
  /\ spc' = "exit"
  /\ UNCHANGED <<sopts, shell_host, runs, script_attempts, restarts_used, current_args,
                 latest_checkpoint, launch_report, raised, script_exit>>
  /\ UNCHANGED <<planvars, libvars>>

\* finally: the 'off' step raises: an Exception is reported as a warning, a
\* KeyboardInterrupt replaces whatever was leaving the try block
FinallyOffRaises(exc) ==
  /\ spc = "finally"
  /\ OffIsDue(Val(sopts), launch_report, raised)
  /\ accel_calls' = Append(accel_calls, AccelCall("off", OffDryRun(Val(sopts)), exc))
  /\ raised' = IF exc = "KeyboardInterrupt" THEN Some(exc) ELSE raised
  /\ spc' = "exit"
  /\ UNCHANGED <<sopts, shell_host, runs, script_attempts, restarts_used, current_args,
                 latest_checkpoint, launch_report, script_exit>>
  /\ UNCHANGED <<sysvars, planvars, libvars>>

\* the except clauses of launch_command and "raise typer.Exit(code=exit_code)"
ExitCodeOf(exc, rep) ==
  IF exc = Some("KeyboardInterrupt") THEN 130
  ELSE IF exc = Some("UsageError") THEN 2
  ELSE IF exc # None THEN 1
  ELSE Val(rep).exit_code

\* launch_command ends and its process exits
ScriptExit ==
  /\ spc = "exit"
  /\ script_exit' = Some(ExitCodeOf(raised, launch_report))
  /\ host' = ProcessExit(Val(shell_host), host)
  /\ spc' = "done"
  /\ UNCHANGED <<sopts, shell_host, accel_calls, runs, script_attempts, restarts_used,
                 current_args, latest_checkpoint, launch_report, raised>>
  /\ UNCHANGED <<ctx, file, rendered, log, exit_code, nops, faults, last, session>>
  /\ UNCHANGED <<planvars, libvars>>

\* 'accelerate --on' issued before the launch: an earlier session's snapshot
EarlierOn ==
  /\ spc = "idle"
  /\ nops = 0
  /\ CmdOn([on |-> TRUE, off |-> FALSE, status |-> FALSE, dry_run |-> FALSE,
            cpu_only |-> FALSE, gpu_only |-> FALSE], AllOk)
  /\ UNCHANGED scriptvars

\* the toggle of a Linux host that lacks no tunable, before any command
ToggleIdle ==
  /\ \E root \in BOOLEAN : ctx = detect_context("linux", root, FALSE)
  /\ host \in {h \in HostsOf(ctx) : Missing(ctx, h) = {}}
  /\ file = None
  /\ rendered = None
  /\ log = <<>>
  /\ exit_code = None
  /\ nops = 0
  /\ faults = 0
  /\ last = None
  /\ session = NoSession

ScriptInit ==
  /\ ToggleIdle
  /\ PlanParked
  /\ NoLibraryCall
  /\ NoScript

ExcKinds == {"Exception", "KeyboardInterrupt"}

CheckpointFinds == {None} \cup {Some(c) : c \in Checkpoints}

\* the steps of launch_training_script
LauncherNext ==
  \/ LaunchScriptDryRun
  \/ \E scan \in CheckpointFinds : LaunchLoopBegin(scan)
  \/ \E rc \in ReturnCodes, seen, scan \in CheckpointFinds : RunAttempt(rc, seen, scan)
  \/ RunInterrupted
  \/ \E exc \in ExcKinds : LaunchRaises(exc)

ScriptNext ==
  \/ EarlierOn
  \/ \E o \in BoundedScriptOptions : ScriptUsageError(o)
  \/ \E o \in BoundedScriptOptions : ScriptBegin(o)
  \/ spc = "accelerate"
       /\ \E oc \in CallOutcomes("on", Val(sopts).accelerate_dry_run) : AccelerateOnReturns(oc)
  \/ \E exc \in ExcKinds : AccelerateOnRaises(exc)
  \/ LauncherNext
  \/ FinallyPlain
  \/ spc = "finally"
       /\ \E oc \in CallOutcomes("off", OffDryRun(Val(sopts))) : FinallyOffReturns(oc)
  \/ \E exc \in ExcKinds : FinallyOffRaises(exc)
  \/ ScriptExit

ScriptSpec == ScriptInit /\ [][ScriptNext]_vars

\* launch_training_script called with the arguments of one launch
LauncherInit ==
  /\ ToggleParked
  /\ PlanParked
  /\ NoLibraryCall
  /\ spc = "launch"
  /\ sopts \in {Some(o) : o \in LauncherArgs}
  /\ shell_host = None
  /\ accel_calls = <<>>
  /\ runs = 0
  /\ script_attempts = <<>>
  /\ restarts_used = 0
  /\ current_args = <<>>
  /\ latest_checkpoint = None
  /\ launch_report = None
  /\ raised = None
  /\ script_exit = None

LauncherSpec == LauncherInit /\ [][LauncherNext]_vars

\* every script run ends: it returns a code or is interrupted
LauncherFairSpec == LauncherSpec /\ WF_vars(LauncherNext)

(***************************************************************************)
(* Claims about launch_training_script's auto-resume loop                  *)
(***************************************************************************)
\* the codes the script runs returned, in order
ReturnCodesOf(atts) == [i \in 1..Len(atts) |-> atts[i].return_code]

\* the last script run returned 0 (an interrupted run returns nothing and
\* is left out of the attempts list)
LastRunReturnedZero(rep) ==
  /\ Len(rep.attempts) = runs
  /\ runs > 0
  /\ rep.attempts[runs].return_code = 0

\* the loop never runs the script more often than the budget allows
RunsWithinBudget ==
  /\ runs <= Val(sopts).max_restarts + 1
  /\ restarts_used <= Val(sopts).max_restarts
  /\ spc = "loop" => restarts_used = runs

\* what the returned report says about the runs
ReportMatchesRuns ==
  (launch_report # None /\ Val(launch_report).mode = "apply") =>
    LET rep == Val(launch_report)
    IN /\ rep.restarts_used = runs - 1
       /\ rep.restarts_used <= rep.max_restarts
       /\ rep.status # "interrupted" => rep.restarts_used = Len(rep.attempts) - 1
       /\ (rep.status = "completed" /\ rep.exit_code = 0) <=> LastRunReturnedZero(rep)
       /\ (ReturnCodesOf(rep.attempts) = <<1, 0>> /\ rep.status # "interrupted") =>
            /\ rep.status = "completed"
            /\ rep.restarts_used = 1
            /\ Len(rep.attempts) = 2

\* the loop goes round again
Restarts == spc = "loop" /\ spc' = "loop" /\ runs' = runs + 1

\* a restart follows a failed run under auto_resume with a checkpoint found,
\* and resumes with the original arguments plus '--resume <checkpoint>'
RestartOnlyToResume ==
  Restarts =>
    /\ script_attempts'[runs'].return_code # 0
    /\ Val(sopts).auto_resume
    /\ restarts_used < Val(sopts).max_restarts
    /\ restarts_used' = restarts_used + 1
    /\ latest_checkpoint' # None
    /\ current_args' = Val(sopts).script_args \o <<"--resume", Val(latest_checkpoint')>>

\* a run that fails with a checkpoint on disk, restarts to spare and no
\* resume flag among the arguments is followed by a restart
FailedRunIsResumed ==
  (/\ spc = "loop" /\ runs' = runs + 1 /\ Len(script_attempts') = runs'
   /\ script_attempts'[runs'].return_code # 0
   /\ Val(sopts).auto_resume /\ restarts_used < Val(sopts).max_restarts
   /\ latest_checkpoint' # None
   /\ Val(sopts).script_args = <<"--epochs">>) => Restarts

\* launch_training_script has returned or raised
LauncherDone == spc = "finally"

AccelCallsOf(action) == {i \in 1..Len(accel_calls) : accel_calls[i].action = action}

\* the 'on' step was invoked and returned
OnReturned == \E i \in AccelCallsOf("on") : accel_calls[i].ended = "returned"

\* the try/finally of launch_command is over
PastFinally == spc \in {"exit", "done"}

\* the training run was interrupted: launch_training_script reported it or
\* let the KeyboardInterrupt through
RunWasInterrupted ==
  \/ launch_report # None /\ Val(launch_report).status = "interrupted"
  \/ launch_report = None
       /\ raised = Some("KeyboardInterrupt")
       /\ \E i \in 1..Len(accel_calls) : accel_calls[i].at = "finally"

\* every 'off' call is made in the finally block, after the 'on' call
OffOnlyAfterRun ==
  \A i \in AccelCallsOf("off") :
    /\ accel_calls[i].at = "finally"
    /\ \A j \in AccelCallsOf("on") : j < i

\* C22: once the 'on' step has returned, the 'off' step is invoked exactly
\* once after the training run has ended, whether the run completed, failed
\* or was interrupted, never before 'on'; an interrupted launch exits 130
C22_OffFollowsOn ==
  /\ OffOnlyAfterRun
  /\ Cardinality(AccelCallsOf("off")) <= 1
  /\ (OnReturned /\ PastFinally) => Cardinality(AccelCallsOf("off")) = 1
  /\ (OnReturned /\ spc = "done" /\ RunWasInterrupted) => script_exit = Some(130)

\* an interrupted run after a returned 'on': 'off' was called and the exit code is 130
C22_Witness ==
  /\ spc = "done"
  /\ OnReturned
  /\ launch_report # None
  /\ Val(launch_report).status = "interrupted"
  /\ Cardinality(AccelCallsOf("off")) = 1
  /\ script_exit = Some(130)

\* the launch previews its acceleration
Previewing ==
  /\ sopts' # None
  /\ Val(sopts').accelerate
  /\ Val(sopts').accelerate_dry_run

\* C30: with --accelerate and --accelerate-dry-run both the 'on' and the
\* 'off' step are dry runs, and no step of the launch changes the host or
\* the persisted snapshot
C30_PreviewNeverMutates ==
  [][Previewing =>
       /\ \A i \in 1..Len(accel_calls') : accel_calls'[i].dry_run
       /\ host' = host
       /\ file' = file]_vars

====
